---- MODULE Spec2Model ----
(***************************************************************************)
(* A model of porespy/generators/__imgen__.py: the shape-insertion         *)
(* primitive (insert_shape), the random sequential addition packer (RSA    *)
(* with _make_choice) and the bisection loop of overlapping_spheres.       *)
(*                                                                         *)
(* Arrays are records [shape, data]: shape is the tuple of axis lengths    *)
(* and data maps every index tuple (0-based, C order) to a value.  Python  *)
(* slices and numpy broadcasting are modelled as numpy computes them,      *)
(* negative bounds included.  Floating point values are modelled as exact  *)
(* rationals (numerator and denominator kept apart).                       *)
(***************************************************************************)
EXTENDS Integers, Sequences, FiniteSets, TLC

VARIABLES
    ins_pc,        \* insert_shape: "call" before the call, "done" after it
    ins_args,      \* insert_shape: the arguments of the call
    ins_caller_im, \* insert_shape: the caller's array (the object passed in)
    ins_ret,       \* insert_shape: what the call produced
    rsa_pc,        \* RSA: "call", "loop", "exit" (loop left), "done", "raised"
    rsa_args,      \* RSA: the arguments of the call
    rsa_caller_im, \* RSA: the caller's array (the object passed in)
    rsa_im,        \* RSA: im, the padded working image
    options_im,    \* RSA: the mask of valid insertion points
    free_sites,    \* RSA: flat indices into options_im
    rsa_i,         \* RSA: i, the number of spheres inserted
    rsa_vf,        \* RSA: vf * im.size (vf is a multiple of 1 / im.size)
    rsa_choice,    \* RSA: the last call of _make_choice: len(free_sites) passed,
                   \*      whether c is a site, whether count > 100, and count
                   \*      itself when c is not a site (0 otherwise)
    rsa_cover,     \* RSA (history): the spheres inserted: their number, the voxels
                   \*      under any of them, the voxels under more than one
    rsa_ret,       \* RSA: what the call produced
    os_pc,         \* overlapping_spheres: "call", "loop", "done"
    os_args,       \* overlapping_spheres: the arguments, and the random field im
    os_N,          \* overlapping_spheres: N
    os_bracket,    \* overlapping_spheres: <<N_low, N_high>>
    os_i,          \* overlapping_spheres: rounds of the for loop run so far
    os_hist,       \* overlapping_spheres (history): N and err of every round
    os_ret,        \* overlapping_spheres: what the call produced
    cyl_pc,        \* cylinders: "call", "loop", "done", "raised"
    cyl_args,      \* cylinders: the arguments of the call
    cyl_k,         \* cylinders: entries of `fractions` the for loop has handled
    cyl_added,     \* cylinders: n_fibers_added
    cyl_vol_fiber, \* cylinders: vol_fiber, a fraction of thousandths of a voxel
    cyl_solid,     \* cylinders: the number of False voxels of im
    cyl_hist,      \* cylinders (history): n_fibers of every batch
    cyl_placed,    \* cylinders (history): the fibers _cylinders has placed
    cyl_ret,       \* cylinders: what the call produced
    cy_pc,         \* _cylinders: "call", "loop", "done", "raised"
    cy_args,       \* _cylinders: the arguments of the call
    cy_n,          \* _cylinders: n, the segments counted
    cy_im,         \* _cylinders: the True voxels of im (the painted ones)
    cy_discarded,  \* _cylinders (history): some sampled segment was discarded
    cy_counted,    \* _cylinders (history): per counted segment, its valid points
    cy_raw,        \* _cylinders (history): the index tuples used at line 1003
    cy_ret,        \* _cylinders: what the call produced
    ve_pc,         \* _get_Voronoi_edges: "call", "done"
    ve_ridges,     \* _get_Voronoi_edges: vor.ridge_vertices
    ve_ret,        \* _get_Voronoi_edges: what the call produced
    pn_pc,         \* perlin_noise: "call", "noise" (checks passed), "raised",
                   \*   "mismatch" (an octave failed), "done"
    pn_args,       \* perlin_noise: the arguments of the call
    pn_failed,     \* perlin_noise: the check that raised, "" when none did
    pn_round,      \* perlin_noise: the octaves added to noise so far
    pn_frequency,  \* perlin_noise: the local frequency of the octave loop
    pg_pc,         \* pseudo_gravity_packing: "call", "loop", "exit", "done", "raised"
    pg_args,       \* pseudo_gravity_packing: the arguments of the call
    pg_r,          \* pseudo_gravity_packing: r after line 1214
    pg_im,         \* pseudo_gravity_packing: the True voxels of im
    pg_sites,      \* pseudo_gravity_packing: the True voxels of sites
    pg_x_min,      \* pseudo_gravity_packing: x_min
    pg_iter,       \* pseudo_gravity_packing: passes of the for loop begun
    pg_pick,       \* pseudo_gravity_packing (history): in the last pass, the
                   \*      candidate centers and those the random draw can return
    pg_placed,     \* pseudo_gravity_packing (history): the centers used
    pg_printed,    \* pseudo_gravity_packing: the count in 'A total of ...', if printed
    pg_ret,        \* pseudo_gravity_packing: what the call produced
    ls_pc,         \* lattice_spheres: "call", "parsed", "seeded", "done", "raised"
    ls_args,       \* lattice_spheres: the arguments of the call
    ls_lattice,    \* lattice_spheres: the lattice name after parsing
    ls_im,         \* lattice_spheres: the True voxels of im (the sphere centers)
    ls_ret,        \* lattice_spheres: what the call produced
    lsg_pc,        \* line_segment: "call", "fill", "done"
    lsg_args,      \* line_segment: the end points X0 and X1
    lsg_L,         \* line_segment: L, the number of points
    lsg_pts        \* line_segment: the points computed so far, then returned

ins_vars == <<ins_pc, ins_args, ins_caller_im, ins_ret>>

rsa_vars == <<rsa_pc, rsa_args, rsa_caller_im, rsa_im, options_im, free_sites,
              rsa_i, rsa_vf, rsa_choice, rsa_cover, rsa_ret>>

os_vars == <<os_pc, os_args, os_N, os_bracket, os_i, os_hist, os_ret>>

\* A component that is not being run: nothing of it is constructed
InsIdle == ins_pc = "idle" /\ ins_args = <<>> /\ ins_caller_im = <<>> /\ ins_ret = <<>>

RsaIdle ==
    /\ rsa_pc = "idle" /\ rsa_args = <<>> /\ rsa_caller_im = <<>> /\ rsa_im = <<>>
    /\ options_im = <<>> /\ free_sites = {} /\ rsa_i = 0 /\ rsa_vf = 0
    /\ rsa_choice = <<>> /\ rsa_cover = <<>> /\ rsa_ret = <<>>

OsIdle ==
    /\ os_pc = "idle" /\ os_args = <<>> /\ os_N = 0 /\ os_bracket = <<>>
    /\ os_i = 0 /\ os_hist = <<>> /\ os_ret = <<>>

cyl_vars == <<cyl_pc, cyl_args, cyl_k, cyl_added, cyl_vol_fiber, cyl_solid,
              cyl_hist, cyl_placed, cyl_ret>>

CylIdle ==
    /\ cyl_pc = "idle" /\ cyl_args = <<>> /\ cyl_k = 0 /\ cyl_added = 0
    /\ cyl_vol_fiber = <<>> /\ cyl_solid = 0 /\ cyl_hist = <<>> /\ cyl_placed = 0
    /\ cyl_ret = <<>>

cy_vars == <<cy_pc, cy_args, cy_n, cy_im, cy_discarded, cy_counted, cy_raw, cy_ret>>

CyIdle ==
    /\ cy_pc = "idle" /\ cy_args = <<>> /\ cy_n = 0 /\ cy_im = {}
    /\ cy_discarded = FALSE /\ cy_counted = <<>> /\ cy_raw = {} /\ cy_ret = <<>>

ve_vars == <<ve_pc, ve_ridges, ve_ret>>

VeIdle == ve_pc = "idle" /\ ve_ridges = <<>> /\ ve_ret = <<>>

pn_vars == <<pn_pc, pn_args, pn_failed, pn_round, pn_frequency>>

PnIdle ==
    /\ pn_pc = "idle" /\ pn_args = <<>> /\ pn_failed = "" /\ pn_round = 0
    /\ pn_frequency = 0

pg_vars == <<pg_pc, pg_args, pg_r, pg_im, pg_sites, pg_x_min, pg_iter, pg_pick,
             pg_placed, pg_printed, pg_ret>>

PgIdle ==
    /\ pg_pc = "idle" /\ pg_args = <<>> /\ pg_r = 0 /\ pg_im = {} /\ pg_sites = {}
    /\ pg_x_min = 0 /\ pg_iter = 0 /\ pg_pick = <<>> /\ pg_placed = <<>>
    /\ pg_printed = <<>> /\ pg_ret = <<>>

ls_vars == <<ls_pc, ls_args, ls_lattice, ls_im, ls_ret>>

LsIdle ==
    /\ ls_pc = "idle" /\ ls_args = <<>> /\ ls_lattice = "" /\ ls_im = {}
    /\ ls_ret = <<>>

lsg_vars == <<lsg_pc, lsg_args, lsg_L, lsg_pts>>

LsgIdle == lsg_pc = "idle" /\ lsg_args = <<>> /\ lsg_L = 0 /\ lsg_pts = <<>>

\* ---- frames: what a run of one component leaves alone ----

vars == <<ins_vars, rsa_vars, os_vars, cyl_vars, cy_vars, ve_vars, pn_vars, pg_vars, ls_vars, lsg_vars>>

\* Everything but the variables of ins_vars, and all of it idle
not_ins_vars ==
    <<rsa_vars, os_vars, cyl_vars, cy_vars, ve_vars, pn_vars, pg_vars, ls_vars, lsg_vars>>

OnlyIns ==
    RsaIdle /\ OsIdle /\ CylIdle /\ CyIdle /\ VeIdle /\ PnIdle /\ PgIdle /\ LsIdle /\ LsgIdle

\* Everything but the variables of rsa_vars, and all of it idle
not_rsa_vars ==
    <<ins_vars, os_vars, cyl_vars, cy_vars, ve_vars, pn_vars, pg_vars, ls_vars, lsg_vars>>

OnlyRsa ==
    InsIdle /\ OsIdle /\ CylIdle /\ CyIdle /\ VeIdle /\ PnIdle /\ PgIdle /\ LsIdle /\ LsgIdle

\* Everything but the variables of os_vars, and all of it idle
not_os_vars ==
    <<ins_vars, rsa_vars, cyl_vars, cy_vars, ve_vars, pn_vars, pg_vars, ls_vars, lsg_vars>>

OnlyOs ==
    InsIdle /\ RsaIdle /\ CylIdle /\ CyIdle /\ VeIdle /\ PnIdle /\ PgIdle /\ LsIdle /\ LsgIdle

\* Everything but the variables of cyl_vars, and all of it idle
not_cyl_vars ==
    <<ins_vars, rsa_vars, os_vars, cy_vars, ve_vars, pn_vars, pg_vars, ls_vars, lsg_vars>>

OnlyCyl ==
    InsIdle /\ RsaIdle /\ OsIdle /\ CyIdle /\ VeIdle /\ PnIdle /\ PgIdle /\ LsIdle /\ LsgIdle

\* Everything but the variables of cy_vars, and all of it idle
not_cy_vars ==
    <<ins_vars, rsa_vars, os_vars, cyl_vars, ve_vars, pn_vars, pg_vars, ls_vars, lsg_vars>>

OnlyCy ==
    InsIdle /\ RsaIdle /\ OsIdle /\ CylIdle /\ VeIdle /\ PnIdle /\ PgIdle /\ LsIdle /\ LsgIdle

\* Everything but the variables of ve_vars, and all of it idle
not_ve_vars ==
    <<ins_vars, rsa_vars, os_vars, cyl_vars, cy_vars, pn_vars, pg_vars, ls_vars, lsg_vars>>

OnlyVe ==
    InsIdle /\ RsaIdle /\ OsIdle /\ CylIdle /\ CyIdle /\ PnIdle /\ PgIdle /\ LsIdle /\ LsgIdle

\* Everything but the variables of pn_vars, and all of it idle
not_pn_vars ==
    <<ins_vars, rsa_vars, os_vars, cyl_vars, cy_vars, ve_vars, pg_vars, ls_vars, lsg_vars>>

OnlyPn ==
    InsIdle /\ RsaIdle /\ OsIdle /\ CylIdle /\ CyIdle /\ VeIdle /\ PgIdle /\ LsIdle /\ LsgIdle

\* Everything but the variables of pg_vars, and all of it idle
not_pg_vars ==
    <<ins_vars, rsa_vars, os_vars, cyl_vars, cy_vars, ve_vars, pn_vars, ls_vars, lsg_vars>>

OnlyPg ==
    InsIdle /\ RsaIdle /\ OsIdle /\ CylIdle /\ CyIdle /\ VeIdle /\ PnIdle /\ LsIdle /\ LsgIdle

\* Everything but the variables of ls_vars, and all of it idle
not_ls_vars ==
    <<ins_vars, rsa_vars, os_vars, cyl_vars, cy_vars, ve_vars, pn_vars, pg_vars, lsg_vars>>

OnlyLs ==
    InsIdle /\ RsaIdle /\ OsIdle /\ CylIdle /\ CyIdle /\ VeIdle /\ PnIdle /\ PgIdle /\ LsgIdle

\* Everything but the variables of lsg_vars, and all of it idle
not_lsg_vars ==
    <<ins_vars, rsa_vars, os_vars, cyl_vars, cy_vars, ve_vars, pn_vars, pg_vars, ls_vars>>

OnlyLsg ==
    InsIdle /\ RsaIdle /\ OsIdle /\ CylIdle /\ CyIdle /\ VeIdle /\ PnIdle /\ PgIdle /\ LsIdle

\* ---- end of frames ----

\* ------------------------------------------------------------------------
\* Bounds of the model
\* ------------------------------------------------------------------------

\* insert_shape: largest axis length of the image
MaxImDim == 3

\* insert_shape: largest axis length of the inserted element
MaxElDim == 3

\* insert_shape: how far an anchor may lie beyond either end of an axis
MaxOff == 2

\* RSA: axis lengths of the image passed in
RsaNx == 3

RsaNy == 5

\* RSA: largest n_max passed explicitly
MaxNMax == 2

\* overlapping_spheres: side of the (square) image generated
OsSide == 4

\* overlapping_spheres: largest iter_max passed
MaxIterMax == 4

\* cylinders: side of the (cubic) image generated
CylSide == 2

\* cylinders: largest max_iter passed
MaxCylIter == 4

\* _cylinders: side of the (cubic) image generated
CySide == 2

\* _get_Voronoi_edges: largest vertex index of a ridge
MaxVertex == 2

\* pseudo_gravity_packing: axis lengths of the image passed in
PgNx == 5

PgNy == 5

\* pseudo_gravity_packing: largest max_iter passed
PgMaxIter == 2

\* line_segment: largest coordinate of an end point (the smallest is -1)
MaxCoord == 2

\* lattice_spheres: largest axis length of the shape passed
LsSide == 4

\* perlin_noise: largest axis length of the shape passed
MaxPerlinSide == 8

\* perlin_noise: largest frequency passed
MaxFrequency == 4

\* perlin_noise: largest number of octaves passed
MaxOctaves == 3

\* ------------------------------------------------------------------------
\* Python / numpy primitives
\* ------------------------------------------------------------------------

Max(a, b) == IF a >= b THEN a ELSE b

Min(a, b) == IF a <= b THEN a ELSE b

\* Python's None
None == <<>>

\* All index tuples of an array of the given shape (1-D or 2-D)
Indices(shape) ==
    IF Len(shape) = 1
    THEN {<<i>> : i \in 0..(shape[1] - 1)}
    ELSE {<<i, j>> : i \in 0..(shape[1] - 1), j \in 0..(shape[2] - 1)}

\* Position of an index tuple in C (row-major) order
Ravel(shape, idx) ==
    IF Len(shape) = 1 THEN idx[1] ELSE idx[1] * shape[2] + idx[2]

\* slice(lo, hi)
Slice(lo, hi) == [lo |-> lo, hi |-> hi]

\* How Python resolves one bound of a slice on an axis of length n:
\* a negative bound counts from the end, and the result is clamped to 0..n
SliceBound(k, n) ==
    IF k < 0 THEN Max(k + n, 0) ELSE Min(k, n)

\* First index selected by slice s on an axis of length n
SliceStart(s, n) == SliceBound(s.lo, n)

\* Number of indices selected by slice s on an axis of length n
SliceLen(s, n) == Max(SliceBound(s.hi, n) - SliceBound(s.lo, n), 0)

\* Shape of arr[tuple(sl)]
SlicedShape(arr, sl) ==
    [k \in 1..Len(arr.shape) |-> SliceLen(sl[k], arr.shape[k])]

\* arr[tuple(sl)]: basic slicing, one slice per axis
GetItem(arr, sl) ==
    LET shp == SlicedShape(arr, sl)
    IN  [shape |-> shp,
         data  |-> [idx \in Indices(shp) |->
                      arr.data[[k \in 1..Len(shp) |->
                                  SliceStart(sl[k], arr.shape[k]) + idx[k]]]]]

\* arr * value
Scale(arr, value) ==
    [shape |-> arr.shape,
     data  |-> [idx \in Indices(arr.shape) |-> arr.data[idx] * value]]

\* numpy broadcasting of two operand shapes of equal rank: axis lengths must
\* be equal, or one of them 1
CanBroadcast(sa, sb) ==
    \A k \in 1..Len(sa) : sa[k] = sb[k] \/ sa[k] = 1 \/ sb[k] = 1

BroadcastShape(sa, sb) ==
    [k \in 1..Len(sa) |-> IF sa[k] = 1 THEN sb[k] ELSE sa[k]]

\* The element of arr that broadcasting to a larger shape reads at idx
BroadcastIdx(arr, idx) ==
    [k \in 1..Len(arr.shape) |-> IF arr.shape[k] = 1 THEN 0 ELSE idx[k]]

\* a + b (only used when CanBroadcast(a.shape, b.shape))
Add(a, b) ==
    LET shp == BroadcastShape(a.shape, b.shape)
    IN  [shape |-> shp,
         data  |-> [idx \in Indices(shp) |->
                      a.data[BroadcastIdx(a, idx)] + b.data[BroadcastIdx(b, idx)]]]

\* Whether src can be assigned to a region of shape tgt: every axis of src
\* has the region's length or length 1
CanAssign(src_shape, tgt_shape) ==
    \A k \in 1..Len(tgt_shape) : src_shape[k] = tgt_shape[k] \/ src_shape[k] = 1

\* Whether idx lies in the region arr[tuple(sl)]
InRegion(arr, sl, idx) ==
    \A k \in 1..Len(arr.shape) :
        /\ idx[k] >= SliceStart(sl[k], arr.shape[k])
        /\ idx[k] < SliceStart(sl[k], arr.shape[k]) + SliceLen(sl[k], arr.shape[k])

\* arr[tuple(sl)] = src (only used when CanAssign holds)
SetItem(arr, sl, src) ==
    [shape |-> arr.shape,
     data  |-> [idx \in Indices(arr.shape) |->
                  IF InRegion(arr, sl, idx)
                  THEN src.data[BroadcastIdx(src,
                           [k \in 1..Len(arr.shape) |->
                              idx[k] - SliceStart(sl[k], arr.shape[k])])]
                  ELSE arr.data[idx]]]

\* What a call produces: a returned value, or a raised exception
Returned(v) == [raised |-> FALSE, value |-> v]

Raised == [raised |-> TRUE, value |-> None]

\* ------------------------------------------------------------------------
\* insert_shape
\* ------------------------------------------------------------------------

\* Whether the branch for `center` is taken
UseCenter(center, corner) == (center # None) /\ (corner = None)

\* Mutant: the corner branch taken whenever a corner is given
UseCornerAlways(center, corner) == corner # None

\* Whether the branch for `corner` is taken
UseCorner(center, corner) == (corner # None) /\ (center = None)

\* Whether the center branch raises: an element with an even axis
EvenElement(element) ==
    \E dim \in 1..Len(element.shape) : element.shape[dim] % 2 = 0

\* lower_im of the center branch
CenterLowerIm(c, r) == Max(c - r, 0)

\* Mutant: the upper bound one voxel short
CenterUpperImShort(c, r, n) == Min(c + r, n)

\* upper_im of the center branch
CenterUpperIm(c, r, n) == Min(c + r + 1, n)

\* s_im[dim], s_el[dim] of the center branch
CenterSlices(n, L, c) ==
    LET r == L \div 2
        lower_im == CenterLowerIm(c, r)
        upper_im == CenterUpperIm(c, r, n)
        lower_el == Max(lower_im - c + r, 0)
        upper_el == Min(upper_im - c + r, L)
    IN  [im |-> Slice(lower_im, upper_im), el |-> Slice(lower_el, upper_el)]

\* upper_im of the corner branch
CornerUpperIm(c, L, n) == Min(c + L, n)

\* s_im[dim], s_el[dim] of the corner branch
CornerSlices(n, L, c) ==
    LET lower_im == Max(c, 0)
        upper_im == CornerUpperIm(c, L, n)
        lower_el == Max(lower_im - c, 0)
        upper_el == Min(upper_im - c, L)
    IN  [im |-> Slice(lower_im, upper_im),
         el |-> Slice(Min(lower_el, upper_el), upper_el)]

\* The slices of every axis, for the branch taken
AxisSlices(im, element, center, corner) ==
    [dim \in 1..Len(im.shape) |->
        IF UseCenter(center, corner)
        THEN CenterSlices(im.shape[dim], element.shape[dim], center[dim])
        ELSE CornerSlices(im.shape[dim], element.shape[dim], corner[dim])]

\* im[s_im] = im[s_im] + element[s_el] * value
Overlay(im, s_im, s_el, element, value) ==
    LET old == GetItem(im, s_im)
        new == Scale(GetItem(element, s_el), value)
    IN  IF ~CanBroadcast(old.shape, new.shape) THEN Raised
        ELSE IF ~CanAssign(BroadcastShape(old.shape, new.shape), old.shape)
        THEN Raised
        ELSE Returned(SetItem(im, s_im, Add(old, new)))

\* im[s_im] = element[s_el] * value
Overwrite(im, s_im, s_el, element, value) ==
    LET new == Scale(GetItem(element, s_el), value)
    IN  IF ~CanAssign(new.shape, SlicedShape(im, s_im)) THEN Raised
        ELSE Returned(SetItem(im, s_im, new))

\* insert_shape(im, element, center, corner, value, mode), on the copy of im
insert_shape(im, element, center, corner, value, mode) ==
    IF Len(im.shape) # Len(element.shape) THEN Raised
    ELSE IF ~UseCenter(center, corner) /\ ~UseCorner(center, corner) THEN Raised
    ELSE IF UseCenter(center, corner) /\ EvenElement(element) THEN Raised
    ELSE LET sl   == AxisSlices(im, element, center, corner)
             s_im == [dim \in 1..Len(im.shape) |-> sl[dim].im]
             s_el == [dim \in 1..Len(im.shape) |-> sl[dim].el]
         IN  IF mode = "overlay" THEN Overlay(im, s_im, s_el, element, value)
             ELSE IF mode = "overwrite" THEN Overwrite(im, s_im, s_el, element, value)
             ELSE Raised

\* ---- the calls explored ----

\* Shapes of rank nd with axis lengths 1..m
Shapes(nd, m) ==
    IF nd = 1 THEN {<<a>> : a \in 1..m} ELSE {<<a, b>> : a \in 1..m, b \in 1..m}

\* The image passed in: every voxel holds a different value
InsImage(shape) ==
    [shape |-> shape, data |-> [idx \in Indices(shape) |-> 100 + 10 * Ravel(shape, idx)]]

\* The element passed in: every voxel holds a different value, the first one 0
InsElement(shape) ==
    [shape |-> shape, data |-> [idx \in Indices(shape) |-> Ravel(shape, idx)]]

\* Anchor coordinates tried on an axis of an image with axes up to m long
AnchorRange(m) == (0 - MaxOff)..(m - 1 + MaxOff)

Anchors(nd, m) ==
    IF nd = 1 THEN {<<a>> : a \in AnchorRange(m)}
    ELSE {<<a, b>> : a \in AnchorRange(m), b \in AnchorRange(m)}

\* (center, corner) pairs: one of the two, both, or neither
AnchorPairs(nd, m) ==
    {<<a, None>> : a \in Anchors(nd, m)} \cup {<<None, a>> : a \in Anchors(nd, m)}
    \cup {<<None, None>>}
    \cup {<<a, a>> : a \in {[k \in 1..nd |-> 0], [k \in 1..nd |-> 1]}}

\* (mode, value) pairs
ModeValues == {<<"overwrite", 3>>, <<"overlay", 2>>}

\* Calls on images of rank nd with axes up to m long
CallsOfRank(nd, m) ==
    {[im |-> InsImage(si), element |-> InsElement(se), center |-> a[1],
      corner |-> a[2], mode |-> mv[1], value |-> mv[2]] :
        si \in Shapes(nd, m), se \in Shapes(nd, MaxElDim),
        a \in AnchorPairs(nd, m), mv \in ModeValues}

\* Calls with a mode that is neither 'overwrite' nor 'overlay'
BadModeCalls ==
    {[im |-> InsImage(<<MaxImDim>>), element |-> InsElement(<<1>>), center |-> a[1],
      corner |-> a[2], mode |-> "replace", value |-> 1] : a \in AnchorPairs(1, MaxImDim)}

\* Calls whose element has another rank than the image
RankMismatchCalls ==
    {[im |-> InsImage(si), element |-> InsElement(se), center |-> a[1],
      corner |-> a[2], mode |-> "overwrite", value |-> 1] :
        si \in Shapes(1, 2), se \in Shapes(2, 1), a \in AnchorPairs(1, 1)}
    \cup
    {[im |-> InsImage(si), element |-> InsElement(se), center |-> a[1],
      corner |-> a[2], mode |-> "overwrite", value |-> 1] :
        si \in Shapes(2, 2), se \in Shapes(1, 1), a \in AnchorPairs(2, 1)}

\* 1-D images have axes up to MaxImDim long, 2-D images up to MaxImDim - 1
InsCalls ==
    CallsOfRank(1, MaxImDim) \cup CallsOfRank(2, MaxImDim - 1)
    \cup BadModeCalls \cup RankMismatchCalls

StartInsert ==
    /\ ins_pc = "call"
    /\ ins_args \in InsCalls
    /\ ins_caller_im = ins_args.im
    /\ ins_ret = Raised

\* The caller's array after a call that left the function's own `im` as
\* `local`: line 52 rebinds `im` to a copy, so the caller's array is not written
CallerImAfter(caller_im, local) == caller_im

\* The call
InsertShapeCall ==
    /\ ins_pc = "call"
    /\ ins_pc' = "done"
    /\ ins_ret' = insert_shape(ins_args.im, ins_args.element, ins_args.center,
                               ins_args.corner, ins_args.value, ins_args.mode)
    /\ ins_caller_im' = CallerImAfter(ins_caller_im,
                             IF ins_ret'.raised THEN ins_args.im ELSE ins_ret'.value)
    /\ UNCHANGED ins_args

\* ---- insert_shape: properties ----

\* Exactly one of center and corner is given
OneAnchor(a) == (a.center = None) # (a.corner = None)

\* A call the documentation allows: one anchor, element of the image's rank
\* (odd on every axis when anchored by its center), a known mode
ValidCall(a) ==
    /\ OneAnchor(a)
    /\ Len(a.im.shape) = Len(a.element.shape)
    /\ a.mode \in {"overwrite", "overlay"}
    /\ a.center # None => \A k \in 1..Len(a.element.shape) : a.element.shape[k] % 2 = 1

\* Image index of the element's voxel [0, ..., 0]
AnchorLow(a) ==
    [k \in 1..Len(a.im.shape) |->
        IF a.center # None THEN a.center[k] - (a.element.shape[k] \div 2)
        ELSE a.corner[k]]

\* The element, placed at its anchor, lies inside the image on every axis
FullyInside(a) ==
    \A k \in 1..Len(a.im.shape) :
        AnchorLow(a)[k] >= 0 /\ AnchorLow(a)[k] + a.element.shape[k] <= a.im.shape[k]

\* The element, placed at its anchor, misses the image on some axis
FullyOutside(a) ==
    \E k \in 1..Len(a.im.shape) :
        AnchorLow(a)[k] + a.element.shape[k] <= 0 \/ AnchorLow(a)[k] >= a.im.shape[k]

\* Whether image voxel idx lies under the element placed at its anchor
UnderElement(a, idx) ==
    \A k \in 1..Len(a.im.shape) :
        idx[k] >= AnchorLow(a)[k] /\ idx[k] < AnchorLow(a)[k] + a.element.shape[k]

\* The value the documentation gives image voxel idx after the call
ExpectedAt(a, idx) ==
    LET e == a.element.data[[k \in 1..Len(a.im.shape) |-> idx[k] - AnchorLow(a)[k]]]
    IN  IF ~UnderElement(a, idx) THEN a.im.data[idx]
        ELSE IF a.mode = "overwrite" THEN e * a.value
        ELSE a.im.data[idx] + e * a.value

\* The call returned the image the documentation describes
ReturnedExpected(a, ret) ==
    /\ ~ret.raised
    /\ ret.value.shape = a.im.shape
    /\ \A idx \in Indices(a.im.shape) : ret.value.data[idx] = ExpectedAt(a, idx)

\* C7: a valid call that places the element fully inside the image returns
\* element * value on the anchored sub-region ('overwrite'), or the original
\* plus element * value ('overlay'), and the input image everywhere else.
C7_InBoundsPlacement ==
    (ins_pc = "done" /\ ValidCall(ins_args) /\ FullyInside(ins_args))
        => ReturnedExpected(ins_args, ins_ret)

\* C7 witness: a 3-voxel-wide element overlaid by its center, fully inside
C7_Witness ==
    /\ ins_pc = "done" /\ ValidCall(ins_args) /\ FullyInside(ins_args)
    /\ ins_args.center # None /\ ins_args.mode = "overlay"
    /\ \E k \in 1..Len(ins_args.element.shape) : ins_args.element.shape[k] = 3
    /\ ReturnedExpected(ins_args, ins_ret)

\* C8 (as claimed): every valid call, whatever its anchor, returns without
\* raising, writes exactly the in-bounds voxels under the element, and leaves
\* the grid unchanged when the element misses the image.
C8_ClipsWithoutRaising ==
    (ins_pc = "done" /\ ValidCall(ins_args)) => ReturnedExpected(ins_args, ins_ret)

\* C9: a call that gives both center and corner, or neither, raises and
\* returns no grid, and the caller's image keeps its contents.
C9_BothOrNeitherFails ==
    (ins_pc = "done" /\ ~OneAnchor(ins_args))
        => /\ ins_ret.raised
           /\ ins_ret.value = None
           /\ ins_caller_im = ins_args.im

\* C9 witness: a call with both anchors has been made and has raised
C9_Witness ==
    /\ ins_pc = "done"
    /\ ins_args.center # None /\ ins_args.corner # None
    /\ Len(ins_args.im.shape) = Len(ins_args.element.shape)
    /\ ins_ret.raised

\* ------------------------------------------------------------------------
\* RSA: helpers from porespy.tools, numpy and edt
\* ------------------------------------------------------------------------
\* Boolean arrays are records [shape, on]: on is the set of True voxels.

\* ps_disk(r): the voxels of a (2r+1) x (2r+1) array that lie closer than r
\* to its middle voxel
ps_disk(r) ==
    LET shp == <<2 * r + 1, 2 * r + 1>>
    IN  [shape |-> shp,
         on    |-> {idx \in Indices(shp) :
                      (idx[1] - r) * (idx[1] - r) + (idx[2] - r) * (idx[2] - r) < r * r}]

\* get_border(shape, thickness, mode='faces'): True everywhere except on
\* the block [t:-t, t:-t]
get_border(shape, t) ==
    [shape |-> shape,
     on    |-> {idx \in Indices(shape) :
                  ~(\A k \in 1..2 :
                       /\ idx[k] >= SliceStart(Slice(t, 0 - t), shape[k])
                       /\ idx[k] < SliceStart(Slice(t, 0 - t), shape[k])
                                    + SliceLen(Slice(t, 0 - t), shape[k]))}]

\* np.pad(im, pad_width=w, mode="edge"): every padded voxel repeats the
\* nearest voxel of im
PadEdge(im, w) ==
    LET shp == <<im.shape[1] + 2 * w, im.shape[2] + 2 * w>>
    IN  [shape |-> shp,
         on    |-> {idx \in Indices(shp) :
                      <<Min(Max(idx[1] - w, 0), im.shape[1] - 1),
                        Min(Max(idx[2] - w, 0), im.shape[2] - 1)>> \in im.on}]

\* Squared Euclidean distance of two voxels
DistSq(p, q) == (p[1] - q[1]) * (p[1] - q[1]) + (p[2] - q[2]) * (p[2] - q[2])

\* edt(im == 0) >= radius: the voxels whose distance to the nearest True
\* voxel of im (0 on a True voxel itself) is at least radius
EdtAtLeast(im, radius) ==
    [shape |-> im.shape,
     on    |-> {p \in Indices(im.shape) :
                  IF p \in im.on THEN 0 >= radius
                  ELSE \A q \in im.on : DistSq(p, q) >= radius * radius}]

\* np.flatnonzero(a): the C-order positions of the True voxels
flatnonzero(a) == {Ravel(a.shape, idx) : idx \in a.on}

\* The voxels of an array of shape shp addressed by the True voxels of
\* `template` laid over the region arr[tuple(sl)]
TemplateVoxels(shp, sl, template) ==
    {[k \in 1..2 |-> SliceStart(sl[k], shp[k]) + idx[k]] : idx \in template.on}

\* Whether the region arr[tuple(sl)] has the template's shape
RegionFits(shp, sl, template) ==
    \A k \in 1..2 : SliceLen(sl[k], shp[k]) = template.shape[k]

\* ------------------------------------------------------------------------
\* _make_choice
\* ------------------------------------------------------------------------

\* Attempts allowed per entry of free_sites (max_iters = upper_limit * 20)
RetryFactor == 20

\* Mutant: half the retry budget
MaxItersHalf(fs) == Cardinality(fs) * 10

\* max_iters
MaxIters(fs) == Cardinality(fs) * RetryFactor

\* The manual unraveling of a flat index: coords[1] = f % Ny,
\* coords[0] = (f // Ny) % Nx
Unravel(f, shape) == <<(f \div shape[2]) % shape[1], f % shape[2]>>

\* The coordinates returned when no attempt succeeds
NoSite == <<-1, -1>>

\* The entries of free_sites whose voxel is still True in options_im
LiveSites(options, fs) == {f \in fs : Unravel(f, options.shape) \in options.on}

\* Every draw is uniform over free_sites, so a run of the loop can hit any
\* sequence of entries.  The coordinates it can return: any entry that is
\* still True, or NoSite when all max_iters draws can miss (some entry is
\* stale, or there is no entry to draw)
ChoiceCoords(options, fs) ==
    {Unravel(f, options.shape) : f \in LiveSites(options, fs)}
    \cup (IF LiveSites(options, fs) # fs \/ fs = {} THEN {NoSite} ELSE {})

\* The values of count that can come with coordinates c: max_iters with
\* NoSite; otherwise the successful draw is the count-th, after count - 1
\* draws of stale entries
ChoiceCounts(options, fs, c) ==
    IF c = NoSite THEN {MaxIters(fs)}
    ELSE IF LiveSites(options, fs) # fs THEN 1..MaxIters(fs)
    ELSE {1}

\* ------------------------------------------------------------------------
\* RSA
\* ------------------------------------------------------------------------

\* n_max when the caller passes none
DefaultNMax == 10000

\* The count above which free_sites is regenerated
RegenThreshold == 100

\* An optional integer argument: None, or <<k>>
Some(k) == <<k>>

\* n_max after lines 162-163
NMax(args) == IF args.n_max = None THEN DefaultNMax ELSE args.n_max[1]

\* im.astype(bool): a new array, True where im is nonzero
astype_bool(im) == [shape |-> im.shape, on |-> im.on]

\* The caller's array after the call: line 161 rebinds im to the new array
\* astype returns, so nothing is written to the caller's array
RsaCallerImAfter(caller_im, local) == caller_im

\* template_sm, template_lg
TemplateSm(radius) == ps_disk(radius)

\* Mutant: the exclusion region reaches only the sphere's own radius
TemplateLgSmall(radius) ==
    [shape |-> <<4 * radius + 1, 4 * radius + 1>>,
     on    |-> {idx \in Indices(<<4 * radius + 1, 4 * radius + 1>>) :
                  (idx[1] - 2 * radius) * (idx[1] - 2 * radius)
                  + (idx[2] - 2 * radius) * (idx[2] - 2 * radius) < radius * radius}]

TemplateLg(radius) == ps_disk(radius * 2)

\* Mutant: the size of the template array instead of its True voxels
VfTemplateBox(radius) == (2 * radius + 1) * (2 * radius + 1)

\* vf_template * im.size: the voxels of template_sm
VfTemplate(radius) == Cardinality(TemplateSm(radius).on)

\* pad_width of line 175
PadWidth(radius) == 2 * radius

\* Mutant: the thin border in both modes
BorderThicknessThin(mode, radius) == radius + 1

\* Thickness of the border that is made solid, per mode
BorderThickness(mode, radius) ==
    IF mode = "contained" THEN 2 * radius ELSE radius + 1

\* The padded image with its border set: im = np.pad(...); im[border] = True
PaddedWithBorder(im, radius, mode) ==
    LET padded == PadEdge(im, PadWidth(radius))
    IN  [shape |-> padded.shape,
         on    |-> padded.on
                   \cup get_border(padded.shape, BorderThickness(mode, radius)).on]

\* vf <= vf_final, with vf = vf_num / size and vf_final = vff[1] / vff[2]
VfNotPassed(vf_num, size, vff) == vf_num * vff[2] <= vff[1] * size

\* Mutant: the count compared with <= instead of <
LoopGuardInclusive(vf_num, i, fs, args) ==
    /\ VfNotPassed(vf_num, args.im.shape[1] * args.im.shape[2], args.volume_fraction)
    /\ i <= NMax(args)
    /\ Cardinality(fs) > 0

\* The condition of the while loop
LoopGuard(vf_num, i, fs, args) ==
    /\ VfNotPassed(vf_num, args.im.shape[1] * args.im.shape[2], args.volume_fraction)
    /\ i < NMax(args)
    /\ Cardinality(fs) > 0

\* s_sm, s_lg: the slices around center c
SliceSm(c, radius) == [k \in 1..2 |-> Slice(c[k] - radius, c[k] + radius + 1)]

SliceLg(c, radius) == [k \in 1..2 |-> Slice(c[k] - 2 * radius, c[k] + 2 * radius + 1)]

\* Mutant: the crop takes off radius voxels instead of 2 * radius
CropSlicesThin(shape, radius) ==
    [k \in 1..2 |-> Slice(radius, shape[k] - radius)]

\* s of line 213 and im[s]: the image cut back to its original size
CropSlices(shape, radius) ==
    [k \in 1..2 |-> Slice(2 * radius, shape[k] - 2 * radius)]

Crop(im, radius) ==
    LET s == CropSlices(im.shape, radius)
    IN  [shape |-> [k \in 1..2 |-> SliceLen(s[k], im.shape[k])],
         on    |-> {[k \in 1..2 |-> idx[k] - SliceStart(s[k], im.shape[k])] :
                      idx \in {v \in im.on :
                                 \A k \in 1..2 :
                                    /\ v[k] >= SliceStart(s[k], im.shape[k])
                                    /\ v[k] < SliceStart(s[k], im.shape[k])
                                               + SliceLen(s[k], im.shape[k])}}]

\* Lines 159-194: everything before the loop
RSA_Begin ==
    /\ rsa_pc = "call"
    /\ IF rsa_args.mode \notin {"contained", "extended"}
       THEN /\ rsa_pc' = "raised"
            /\ rsa_ret' = Raised
            /\ rsa_im' = PadEdge(astype_bool(rsa_args.im), PadWidth(rsa_args.radius))
            /\ UNCHANGED <<options_im, free_sites, rsa_vf>>
       ELSE /\ rsa_pc' = "loop"
            /\ rsa_im' = PaddedWithBorder(astype_bool(rsa_args.im),
                                          rsa_args.radius, rsa_args.mode)
            /\ options_im' = EdtAtLeast(rsa_im', rsa_args.radius)
            /\ free_sites' = flatnonzero(options_im')
            /\ rsa_vf' = Cardinality(astype_bool(rsa_args.im).on)
            /\ UNCHANGED rsa_ret
    /\ rsa_i' = 0
    /\ rsa_caller_im' = RsaCallerImAfter(rsa_caller_im, astype_bool(rsa_args.im))
    /\ UNCHANGED <<rsa_args, rsa_choice, rsa_cover>>

\* Lines 204-209 for a center c that is not NoSite
InsertSphere(c) ==
    LET radius == rsa_args.radius
        s_sm   == SliceSm(c, radius)
        s_lg   == SliceLg(c, radius)
        sm     == TemplateSm(radius)
        lg     == TemplateLg(radius)
        ball   == TemplateVoxels(rsa_im.shape, s_sm, sm)
    IN  IF ~RegionFits(rsa_im.shape, s_sm, sm)
        THEN \* im[s_sm] += template_sm raises: operands of different shapes
             /\ rsa_pc' = "raised"
             /\ rsa_ret' = Raised
             /\ UNCHANGED <<rsa_im, options_im, rsa_vf, rsa_i, rsa_cover>>
        ELSE IF ~RegionFits(options_im.shape, s_lg, lg)
        THEN \* options_im[s_lg][template_lg] raises: the mask does not fit
             /\ rsa_pc' = "raised"
             /\ rsa_ret' = Raised
             /\ rsa_im' = [rsa_im EXCEPT !.on = @ \cup ball]
             /\ UNCHANGED <<options_im, rsa_vf, rsa_i, rsa_cover>>
        ELSE /\ rsa_pc' = "loop"
             /\ rsa_im' = [rsa_im EXCEPT !.on = @ \cup ball]
             /\ options_im' = [options_im EXCEPT
                                  !.on = @ \ TemplateVoxels(options_im.shape, s_lg, lg)]
             /\ rsa_vf' = rsa_vf + VfTemplate(radius)
             /\ rsa_i' = rsa_i + 1
             /\ rsa_cover' = [n     |-> rsa_cover.n + 1,
                              any   |-> rsa_cover.any \cup ball,
                              multi |-> rsa_cover.multi \cup (rsa_cover.any \cap ball)]
             /\ UNCHANGED rsa_ret

\* Mutant: the list is never rebuilt
FreeSitesAfterPickKept(over, options, fs) == fs

\* free_sites after lines 198-201: rebuilt from the mask when count > 100,
\* before the sphere of this pass is inserted
FreeSitesAfterPick(over, options, fs) == IF over THEN flatnonzero(options) ELSE fs

\* One pass through the body of the while loop (lines 196-209)
RSA_Iterate ==
    /\ rsa_pc = "loop"
    /\ LoopGuard(rsa_vf, rsa_i, free_sites, rsa_args)
    /\ \E c \in ChoiceCoords(options_im, free_sites) :
       \E cmp \in {[over |-> count > RegenThreshold,
                    failed_at |-> IF c = NoSite THEN count ELSE 0] :
                       count \in ChoiceCounts(options_im, free_sites, c)} :
          /\ rsa_choice' = [found |-> c # NoSite, over |-> cmp.over, failed_at |-> cmp.failed_at,
                            upper_limit |-> Cardinality(free_sites)]
          /\ free_sites' = FreeSitesAfterPick(cmp.over, options_im, free_sites)
          /\ IF c = NoSite
             THEN /\ rsa_pc' = "exit"
                  /\ UNCHANGED <<rsa_im, options_im, rsa_vf, rsa_i, rsa_cover, rsa_ret>>
             ELSE InsertSphere(c)
    /\ UNCHANGED <<rsa_args, rsa_caller_im>>

\* The while condition is found false
RSA_LoopEnd ==
    /\ rsa_pc = "loop"
    /\ ~LoopGuard(rsa_vf, rsa_i, free_sites, rsa_args)
    /\ rsa_pc' = "exit"
    /\ UNCHANGED <<rsa_args, rsa_caller_im, rsa_im, options_im, free_sites, rsa_i,
                   rsa_vf, rsa_choice, rsa_cover, rsa_ret>>

\* Lines 210-217: crop and return
RSA_Return ==
    /\ rsa_pc = "exit"
    /\ rsa_pc' = "done"
    /\ rsa_ret' = Returned(Crop(rsa_im, rsa_args.radius))
    /\ UNCHANGED <<rsa_args, rsa_caller_im, rsa_im, options_im, free_sites, rsa_i,
                   rsa_vf, rsa_choice, rsa_cover>>

\* ---- the calls explored ----

\* A boolean image of the explored shape with the given True voxels
RsaImage(on) == [shape |-> <<RsaNx, RsaNy>>, on |-> on]

\* Input images: empty, one solid voxel on an edge, all solid
RsaImages ==
    {RsaImage({}), RsaImage({<<RsaNx - 1, 1>>}), RsaImage(Indices(<<RsaNx, RsaNy>>))}

\* (n_max, volume_fraction) pairs: an explicit n_max with the default
\* target 1, and the default n_max with the targets 0 and 1/20
RsaLimits ==
    {<<Some(n), <<1, 1>>>> : n \in 0..MaxNMax}
    \cup {<<None, <<0, 1>>>>, <<None, <<1, 20>>>>}

RsaCalls ==
    {[im |-> im, radius |-> r, volume_fraction |-> lim[2], n_max |-> lim[1],
      mode |-> m] :
        im \in RsaImages, r \in {1, 2}, lim \in RsaLimits,
        m \in {"contained", "extended"}}
    \cup {[im |-> RsaImage({}), radius |-> 1, volume_fraction |-> <<1, 1>>,
           n_max |-> None, mode |-> "periodic"]}

StartRSA ==
    /\ rsa_pc = "call"
    /\ rsa_args \in RsaCalls
    /\ rsa_caller_im = rsa_args.im
    /\ rsa_im = <<>>
    /\ options_im = <<>>
    /\ free_sites = {}
    /\ rsa_i = 0
    /\ rsa_vf = 0
    /\ rsa_choice = <<>>
    /\ rsa_cover = [n |-> 0, any |-> {}, multi |-> {}]
    /\ rsa_ret = <<>>

\* ---- RSA: properties ----

\* The loop has been entered (or skipped) and the call has not raised
RsaRunning == rsa_pc \in {"loop", "exit", "done"}

\* A pass of the loop body is the only step that can leave such a state
RsaInLoopBody == rsa_pc = "loop" /\ LoopGuard(rsa_vf, rsa_i, free_sites, rsa_args)

\* C24: whenever the loop condition is tested, free_sites holds the index of
\* every True voxel of options_im; options_im only loses True voxels; a pass
\* whose pick took more than 100 attempts leaves free_sites equal to the
\* True voxels of the mask as it was when the list was rebuilt, and any
\* other pass leaves the list as it was.
C24_FreeSitesCoverMask ==
    /\ [](rsa_pc = "loop" =>
            \A v \in options_im.on : Ravel(options_im.shape, v) \in free_sites)
    /\ [][rsa_pc = "loop" => /\ options_im'.shape = options_im.shape
                             /\ options_im'.on \subseteq options_im.on]_vars
    /\ [][RsaInLoopBody =>
            IF rsa_choice'.over
            THEN free_sites' = {Ravel(options_im.shape, v) : v \in options_im.on}
            ELSE free_sites' = free_sites]_vars

\* C24 witness: the list was rebuilt in the pass that inserted the latest
\* sphere, and is stale again because of that sphere
C24_Witness ==
    /\ rsa_pc = "loop"
    /\ rsa_i >= 2
    /\ rsa_choice.found /\ rsa_choice.over
    /\ \E f \in free_sites : Unravel(f, options_im.shape) \notin options_im.on

\* Whether voxel v of the padded image survives the final crop, i.e. lies
\* inside the bounds of the image passed in
InOriginalBounds(v) ==
    \A k \in 1..2 :
        /\ v[k] >= PadWidth(rsa_args.radius)
        /\ v[k] < PadWidth(rsa_args.radius) + rsa_args.im.shape[k]

\* C1: no voxel is covered by more than one inserted sphere template.
C1_NoOverlap == RsaRunning => rsa_cover.multi = {}

\* C1 witness: two spheres of radius 2 (9 voxels each) have been inserted
C1_Witness ==
    /\ rsa_pc = "done" /\ rsa_args.radius = 2 /\ rsa_cover.n = 2
    /\ Cardinality(rsa_cover.any) = 18

\* C2: the number of spheres inserted never exceeds n_max (10000 when none
\* is passed), so the returned grid holds at most n_max new spheres.
C2_AtMostNMax ==
    /\ rsa_pc # "idle" => rsa_i <= NMax(rsa_args) /\ rsa_cover.n <= NMax(rsa_args)
    /\ rsa_args # <<>> /\ rsa_args.n_max = None => NMax(rsa_args) = 10000

\* C2 witness: a run with n_max = MaxNMax has returned with n_max spheres
C2_Witness ==
    /\ rsa_pc = "done" /\ rsa_args.n_max = Some(MaxNMax)
    /\ rsa_i = MaxNMax /\ rsa_cover.n = MaxNMax /\ MaxNMax > 0

\* Why the loop can have been left
ExitReason ==
    \/ ~VfNotPassed(rsa_vf, rsa_args.im.shape[1] * rsa_args.im.shape[2],
                    rsa_args.volume_fraction)
    \/ rsa_i >= NMax(rsa_args)
    \/ free_sites = {}
    \/ /\ rsa_choice # <<>>
       /\ ~rsa_choice.found
       /\ rsa_choice.failed_at = 20 * rsa_choice.upper_limit

\* The image passed in has no valid site once padded and bordered
NoSiteAtStart ==
    EdtAtLeast(PaddedWithBorder(rsa_args.im, rsa_args.radius, rsa_args.mode),
               rsa_args.radius).on = {}

\* C3, the state part: when the loop has been left one of the four reasons
\* holds; a call with a known mode never raises; a grid with no valid site
\* at the start returns with zero spheres.
C3_ExitInv ==
    /\ rsa_pc \in {"exit", "done"} => ExitReason
    /\ rsa_pc = "raised" => rsa_args.mode \notin {"contained", "extended"}
    /\ rsa_pc = "done" => ~rsa_ret.raised /\ (rsa_i = 0 \/ ~NoSiteAtStart)

\* C3: every run terminates, and when the loop is left the target has been
\* passed, n_max is reached, free_sites is empty, or _make_choice returned
\* NoSite having used all 20 * len(free_sites) attempts; a grid without any
\* valid site returns normally with zero spheres.
C3_Terminates == []C3_ExitInv /\ <>(rsa_pc \in {"done", "raised"})

\* C3 witness: a run that inserted a sphere, then found no site within the
\* retry budget, and returned
C3_Witness ==
    /\ rsa_pc = "done" /\ rsa_i >= 1
    /\ ~rsa_choice.found /\ rsa_choice.failed_at = 20 * rsa_choice.upper_limit
    /\ VfNotPassed(rsa_vf, rsa_args.im.shape[1] * rsa_args.im.shape[2],
                   rsa_args.volume_fraction)
    /\ rsa_i < NMax(rsa_args) /\ free_sites # {}

\* C4: in mode 'contained' every voxel of every inserted sphere lies inside
\* the bounds of the image passed in (none falls in the padding).
C4_Contained ==
    (RsaRunning /\ rsa_args.mode = "contained")
        => \A v \in rsa_cover.any : InOriginalBounds(v)

\* C4 witness: a sphere of radius 2 inserted in mode 'contained', touching
\* the first row of the original image
C4_Witness ==
    /\ rsa_pc = "done" /\ rsa_args.mode = "contained" /\ rsa_args.radius = 2
    /\ rsa_cover.n >= 1
    /\ \E v \in rsa_cover.any : v[1] = PadWidth(rsa_args.radius)

\* C5, the state part: after i insertions vf * im.size is the number of
\* solid voxels passed in plus i times the voxels of template_sm.
C5_VfFormula ==
    RsaRunning =>
        rsa_vf = Cardinality(rsa_args.im.on)
                 + rsa_i * Cardinality(ps_disk(rsa_args.radius).on)

BulkVol(shape) == shape[1] * shape[2]

\* s_vol for a 2-D shape
SVol(radius) == Cardinality(ps_disk(radius).on)

\* The smallest integer >= a / b, for a >= 0 and b > 0
CeilDiv(a, b) == (a + b - 1) \div b

\* N = int(np.ceil((1 - porosity) * bulk_vol / s_vol))
InitialN(args) ==
    CeilDiv((args.porosity[2] - args.porosity[1]) * BulkVol(args.shape),
            args.porosity[2] * SVol(args.radius))

\* The voxels where im > N / bulk_vol is False
Seeds(args, N) == {v \in Indices(args.shape) : ~(args.im[v] > N)}

\* f(N) = edt(im > N / bulk_vol) < radius: the voxels closer than radius to
\* a voxel where im <= N / bulk_vol (no voxel when there is none: the
\* distance of an image without background is not below any radius)
f(args, N) ==
    {v \in Indices(args.shape) :
        \E q \in Seeds(args, N) : DistSq(v, q) < args.radius * args.radius}

\* err = g(f(N)) - porosity as a fraction <<numerator, denominator>>, with
\* g(im) = 1 - im.sum() / np.prod(shape)
Err(args, N) ==
    <<(BulkVol(args.shape) - Cardinality(f(args, N))) * args.porosity[2]
        - args.porosity[1] * BulkVol(args.shape),
      BulkVol(args.shape) * args.porosity[2]>>

Abs(x) == IF x < 0 THEN 0 - x ELSE x

\* Mutant: the two ends added, not averaged
MeanIntSum(a, b) == a + b

\* np.mean([a, b], dtype=int): the integer sum divided by 2 and cut to an
\* integer (towards zero)
MeanInt(a, b) ==
    IF a + b >= 0 THEN (a + b) \div 2 ELSE 0 - ((0 - (a + b)) \div 2)

\* abs(err) <= tol
WithinTol(err, tol) == Abs(err[1]) * tol[2] <= tol[1] * err[2]

\* Lines 643-675: everything before the loop
OS_Begin ==
    /\ os_pc = "call"
    /\ os_pc' = "loop"
    /\ os_N' = InitialN(os_args)
    /\ os_bracket' = <<InitialN(os_args), 4 * InitialN(os_args)>>
    /\ os_i' = 0
    /\ UNCHANGED <<os_args, os_hist, os_ret>>

\* One round of the for loop (lines 677-684)
OS_Round ==
    /\ os_pc = "loop"
    /\ os_i < os_args.iter_max
    /\ LET N   == MeanInt(os_bracket[2], os_bracket[1])
           err == Err(os_args, N)
       IN  /\ os_N' = N
           /\ os_bracket' = IF err[1] > 0 THEN <<N, os_bracket[2]>>
                            ELSE <<os_bracket[1], N>>
           /\ os_hist' = Append(os_hist, [N |-> N, err |-> err])
           /\ os_i' = os_i + 1
           /\ IF WithinTol(err, os_args.tol)
              THEN os_pc' = "done" /\ os_ret' = Returned(Indices(os_args.shape) \ f(os_args, N))
              ELSE os_pc' = "loop" /\ UNCHANGED os_ret
    /\ UNCHANGED os_args

\* range(iter_max) is used up: return ~f(N)
OS_Exhausted ==
    /\ os_pc = "loop"
    /\ os_i >= os_args.iter_max
    /\ os_pc' = "done"
    /\ os_ret' = Returned(Indices(os_args.shape) \ f(os_args, os_N))
    /\ UNCHANGED <<os_args, os_N, os_bracket, os_i, os_hist>>

\* ---- the calls explored ----

\* Random fields: the numerators (a * position + b) mod bulk_vol, which are
\* all different when a and bulk_vol have no common factor, and a constant
\* field
OsFields(shape) ==
    {[v \in Indices(shape) |-> (a * Ravel(shape, v) + b) % BulkVol(shape)] :
        a \in {1, 3, 7, 15}, b \in {0, 3, 5}}
    \cup {[v \in Indices(shape) |-> BulkVol(shape) \div 2]}

OsCalls ==
    {[shape |-> <<OsSide, OsSide>>, radius |-> r, porosity |-> p, iter_max |-> m,
      tol |-> t, im |-> im] :
        r \in {1, 2}, p \in {<<1, 4>>, <<1, 2>>, <<3, 4>>}, m \in 0..MaxIterMax,
        t \in {<<0, 1>>, <<1, 16>>, <<1, 8>>}, im \in OsFields(<<OsSide, OsSide>>)}

StartOS ==
    /\ os_pc = "call"
    /\ os_args \in OsCalls
    /\ os_N = 0
    /\ os_bracket = <<>>
    /\ os_i = 0
    /\ os_hist = <<>>
    /\ os_ret = <<>>

\* ---- overlapping_spheres: properties ----

\* N0 = ceil((1 - porosity) * bulk_vol / s_vol), written out
N0(args) ==
    CHOOSE n \in 0..BulkVol(args.shape) :
        /\ n * args.porosity[2] * Cardinality(ps_disk(args.radius).on)
              >= (args.porosity[2] - args.porosity[1]) * BulkVol(args.shape)
        /\ \A m \in 0..(n - 1) :
              m * args.porosity[2] * Cardinality(ps_disk(args.radius).on)
                 < (args.porosity[2] - args.porosity[1]) * BulkVol(args.shape)

\* |err| <= tol, for fractions err and tol
AbsAtMost(err, tol) ==
    (IF err[1] < 0 THEN 0 - err[1] ELSE err[1]) * tol[2] <= tol[1] * err[2]

\* C10: the bisection runs at most iter_max rounds; every N it evaluates
\* lies in [N0, 4 * N0], with N_low <= N <= N_high throughout; it stops at
\* the first round with |err| <= tol (no earlier round was within tol, and
\* it goes on only while the last one was not); and it returns an image,
\* without raising, also when the rounds are used up without reaching tol.
C10_Bisection ==
    os_pc \in {"loop", "done"} =>
        /\ os_i <= os_args.iter_max
        /\ Len(os_hist) = os_i
        /\ \A k \in 1..Len(os_hist) :
              N0(os_args) <= os_hist[k].N /\ os_hist[k].N <= 4 * N0(os_args)
        /\ os_bracket[1] <= os_N /\ os_N <= os_bracket[2]
        /\ N0(os_args) <= os_bracket[1] /\ os_bracket[2] <= 4 * N0(os_args)
        /\ \A k \in 1..(Len(os_hist) - 1) : ~AbsAtMost(os_hist[k].err, os_args.tol)
        /\ (os_pc = "loop" /\ os_i > 0) => ~AbsAtMost(os_hist[os_i].err, os_args.tol)
        /\ (os_pc = "done" /\ os_i < os_args.iter_max)
              => AbsAtMost(os_hist[os_i].err, os_args.tol)
        /\ os_pc = "done" =>
              /\ ~os_ret.raised
              /\ os_ret.value \subseteq Indices(os_args.shape)

\* C10 witness: all iter_max > 1 rounds were used, none within tol, and an
\* image was returned
C10_Witness ==
    /\ os_pc = "done" /\ os_i = os_args.iter_max /\ os_i > 1
    /\ ~AbsAtMost(os_hist[os_i].err, os_args.tol)
    /\ ~os_ret.raised

\* A second case of C10: the loop stopped early, at the first round within tol
C10_EarlyStop ==
    /\ os_pc = "done" /\ os_i < os_args.iter_max /\ os_i > 1
    /\ AbsAtMost(os_hist[os_i].err, os_args.tol)

\* |a| <= |b| for fractions a and b with positive denominators
AbsFracAtMost(a, b) ==
    (IF a[1] < 0 THEN 0 - a[1] ELSE a[1]) * b[2]
        <= (IF b[1] < 0 THEN 0 - b[1] ELSE b[1]) * a[2]

\* The solid fraction of f(N) does not shrink as N grows, over the values of
\* N the bracket can hold: the porosity g(f(N)) is non-increasing in N
PorosityNonIncreasing(args) ==
    \A n \in 0..(4 * N0(args)) : f(args, n) \subseteq f(args, n + 1)

\* C11 (as claimed): with a porosity that is non-increasing in N, the image
\* returned after at least one round is ~f(N) for an evaluated N whose
\* |g(f(N)) - porosity| is the smallest among all the values evaluated.
C11_ReturnsBest ==
    (os_pc = "done" /\ Len(os_hist) > 0 /\ PorosityNonIncreasing(os_args)) =>
        \E k \in 1..Len(os_hist) :
            /\ os_ret.value = Indices(os_args.shape) \ f(os_args, os_hist[k].N)
            /\ \A j \in 1..Len(os_hist) : AbsFracAtMost(os_hist[k].err, os_hist[j].err)

\* ------------------------------------------------------------------------
\* cylinders
\* ------------------------------------------------------------------------
\* Floats are fractions <<a, b>>: a / b for b > 0, <<1, 0>> for inf and
\* <<0, 0>> for nan.  Volumes are counted in thousandths of a voxel.  The
\* image is followed through the number of its False (fiber) voxels, which
\* is all that ps.metrics.porosity reads.

Inf == <<1, 0>>

NaN == <<0, 0>>

\* np.pi, in thousandths
PiMilli == 3142

\* The series z + z^3 / 3 + z^5 / 5 + ... from the term zpow = z^m on, in
\* ten-thousandths (z2 is z * z)
RECURSIVE AtanhTail(_, _, _)
AtanhTail(zpow, m, z2) ==
    IF zpow = 0 THEN 0
    ELSE (zpow \div m) + AtanhTail((zpow * z2) \div 10000, m + 2, z2)

\* -np.log(num / den) for 0 < num <= den, in thousandths:
\* -ln(p) = 2 * atanh((1 - p) / (1 + p))
NegLogMilli(num, den) ==
    LET z == ((den - num) * 10000) \div (den + num)
    IN  (2 * AtanhTail(z, 1, (z * z) \div 10000)) \div 10

\* get_num_pixels(porosity) = -np.log(porosity) * vol_total, for the
\* porosity p[1] / p[2]: inf at porosity 0
get_num_pixels(p, vol_total) ==
    IF p[1] = 0 THEN Inf ELSE <<NegLogMilli(p[1], p[2]) * vol_total, 1>>

\* np.prod(shape)
Prod(shape) ==
    IF Len(shape) = 2 THEN shape[1] * shape[2] ELSE shape[1] * shape[2] * shape[3]

\* vol_total ** (1 / 3), for the volumes explored (all of them cubes of an
\* integer)
CubeRoot(v) == CHOOSE c \in 1..v : c * c * c = v

\* length_estimate
LengthEstimate(args) ==
    IF args.length = None THEN CubeRoot(Prod(args.shape)) ELSE args.length[1]

\* The first vol_fiber: length_estimate * np.pi * radius * radius
VolFiberEstimate(args) ==
    <<LengthEstimate(args) * PiMilli * args.radius * args.radius, 1>>

\* fractions[0..i] of lines 1127-1130, each a fraction with denominator
\* 5 * ssq, where ssq = np.sum(np.arange(1, max_iter) ** 2) and
\* subdif = 0.8 / ssq = 4 / (5 * ssq)
RECURSIVE SumSquares(_)
SumSquares(n) == IF n <= 0 THEN 0 ELSE n * n + SumSquares(n - 1)

RECURSIVE FractionsUpTo(_, _)
FractionsUpTo(i, max_iter) ==
    LET ssq == SumSquares(max_iter - 1)
    IN  IF i = 0 THEN << <<ssq, 5 * ssq>> >>
        ELSE LET prev == FractionsUpTo(i - 1, max_iter)
             IN  Append(prev, <<prev[i][1] + (max_iter - i) * (max_iter - i) * 4,
                                5 * ssq>>)

Fractions(max_iter) == FractionsUpTo(max_iter - 1, max_iter)

\* np.ceil(frac * (n_pixels_to_add / vol_fiber)) for finite n_pixels >= 0:
\* [finite |-> TRUE, n |-> the integer], or finite = FALSE when the float
\* is nan or inf (a division by nan, or by zero)
CeilOfShare(frac, n_pixels, vol_fiber) ==
    IF vol_fiber = NaN THEN [finite |-> FALSE, n |-> 0]
    ELSE IF vol_fiber[2] = 0 THEN [finite |-> TRUE, n |-> 0]
    ELSE IF vol_fiber[1] = 0 THEN [finite |-> FALSE, n |-> 0]
    ELSE LET a == frac[1] * n_pixels[1] * vol_fiber[2]
             b == frac[2] * n_pixels[2] * vol_fiber[1]
         IN  [finite |-> TRUE,
              n |-> IF b > 0 THEN CeilDiv(a, b) ELSE 0 - (a \div (0 - b))]

\* n_fibers = int(np.ceil(frac * n_fibers_total) - n_fibers_added); int()
\* raises on nan and on inf
NFibers(frac, n_pixels, vol_fiber, n_fibers_added) ==
    LET c == CeilOfShare(frac, n_pixels, vol_fiber)
    IN  IF ~c.finite THEN [raised |-> TRUE, n |-> 0]
        ELSE [raised |-> FALSE, n |-> c.n - n_fibers_added]

\* vol_added / n_fibers_added as numpy divides a float64 by an int: by zero
\* it gives inf, or nan for 0 / 0, with a warning and no exception
FloatDiv(x, n) ==
    IF x[2] = 0 THEN x
    ELSE IF n = 0 THEN (IF x[1] = 0 THEN NaN ELSE Inf)
    ELSE IF n > 0 THEN <<x[1], x[2] * n>>
    ELSE <<0 - x[1], x[2] * (0 - n)>>

\* Whether _cylinders rejects its arguments (lines 971-982)
CylArgsInvalid(shape, phi_max, theta_max) ==
    \/ Len(shape) = 2
    \/ phi_max > 90 \/ phi_max < 0
    \/ theta_max > 90 \/ theta_max < 0

\* Mutant: two batches are enough
MaxIterTooSmallLax(max_iter) == max_iter < 2

\* The test of line 1106
MaxIterTooSmall(max_iter) == max_iter < 3

Indices3(shape) ==
    {<<i, j, k>> : i \in 0..(shape[1] - 1), j \in 0..(shape[2] - 1),
                   k \in 0..(shape[3] - 1)}

DistSq3(p, q) ==
    (p[1] - q[1]) * (p[1] - q[1]) + (p[2] - q[2]) * (p[2] - q[2])
    + (p[3] - q[3]) * (p[3] - q[3])

\* The number of True voxels of edt(~im) < radius when the True voxels of im
\* are `painted`
DilatedCount(shape, radius, painted) ==
    Cardinality({p \in Indices3(shape) :
                   \E q \in painted : DistSq3(p, q) < radius * radius})

\* R of line 977 for a cube of side `side`: half the fiber's length, with
\* H = int(sqrt(3) * side) (isqrt by search)
HalfLength(side, length) ==
    LET H == CHOOSE h \in 0..(2 * side) :
                 h * h <= 3 * side * side /\ (h + 1) * (h + 1) > 3 * side * side
    IN  IF length = None THEN Min(H, 2 * H) ELSE Min(length[1] \div 2, 2 * H)

\* The fewest voxels one fiber can turn solid (it has at least one voxel in
\* the grid: a corner voxel), and the most (a row along the first axis, as
\* long as the fiber)
FiberMin(args) == DilatedCount(args.shape, args.radius, {<<0, 0, 0>>})

FiberMax(args) ==
    DilatedCount(args.shape, args.radius,
                 {<<x, args.shape[2] \div 2, args.shape[3] \div 2>> :
                     x \in 0..Min(args.shape[1] - 1,
                                  2 * HalfLength(args.shape[1], args.length))})

\* The numbers of solid voxels that im & _cylinders(shape, radius, n, ...)
\* can leave, n > 0 fibers being laid at random over `solid` solid voxels:
\* the fewest, the most, and one value between
SolidOutcomes(args, solid, n) ==
    LET lo == Max(solid, FiberMin(args))
        hi == Min(Prod(args.shape), solid + n * FiberMax(args))
    IN  {lo, (lo + hi) \div 2, hi}

\* ps.metrics.porosity(im): the fraction of True voxels
Porosity(args, solid) == <<Prod(args.shape) - solid, Prod(args.shape)>>

\* Lines 1092-1132: the dispatch, and everything before the batches
CYL_Begin ==
    /\ cyl_pc = "call"
    /\ IF cyl_args.ncylinders # None
       THEN IF CylArgsInvalid(cyl_args.shape, cyl_args.phi_max, cyl_args.theta_max)
            THEN /\ cyl_pc' = "raised" /\ cyl_ret' = Raised
                 /\ UNCHANGED <<cyl_solid, cyl_placed>>
            ELSE /\ cyl_pc' = "done"
                 /\ cyl_placed' = Max(cyl_args.ncylinders[1], 0)
                 /\ cyl_solid' \in (IF cyl_args.ncylinders[1] > 0
                                    THEN SolidOutcomes(cyl_args, 0, cyl_args.ncylinders[1])
                                    ELSE {0})
                 /\ cyl_ret' = Returned(cyl_solid')
       ELSE IF cyl_args.porosity = None \/ MaxIterTooSmall(cyl_args.max_iter)
       THEN /\ cyl_pc' = "raised" /\ cyl_ret' = Raised
            /\ UNCHANGED <<cyl_solid, cyl_placed>>
       ELSE /\ cyl_pc' = "loop"
            /\ UNCHANGED <<cyl_solid, cyl_placed, cyl_ret>>
    /\ cyl_vol_fiber' = IF cyl_pc' = "loop" THEN VolFiberEstimate(cyl_args) ELSE <<>>
    /\ UNCHANGED <<cyl_args, cyl_k, cyl_added, cyl_hist>>

\* One pass of the for loop over fractions (lines 1134-1144)
CYL_Batch ==
    /\ cyl_pc = "loop"
    /\ cyl_k < Len(Fractions(cyl_args.max_iter))
    /\ LET frac == Fractions(cyl_args.max_iter)[cyl_k + 1]
           nf   == NFibers(frac, get_num_pixels(cyl_args.porosity, Prod(cyl_args.shape)),
                           cyl_vol_fiber, cyl_added)
       IN  IF nf.raised
           THEN /\ cyl_pc' = "raised" /\ cyl_ret' = Raised
                /\ UNCHANGED <<cyl_k, cyl_added, cyl_vol_fiber, cyl_solid, cyl_hist,
                               cyl_placed>>
           ELSE IF nf.n > 0 /\ CylArgsInvalid(cyl_args.shape, cyl_args.phi_max,
                                              cyl_args.theta_max)
           THEN /\ cyl_pc' = "raised" /\ cyl_ret' = Raised
                /\ cyl_hist' = Append(cyl_hist, nf.n)
                /\ UNCHANGED <<cyl_k, cyl_added, cyl_vol_fiber, cyl_solid, cyl_placed>>
           ELSE /\ cyl_solid' \in (IF nf.n > 0 THEN SolidOutcomes(cyl_args, cyl_solid, nf.n)
                                   ELSE {cyl_solid})
                /\ cyl_placed' = cyl_placed + Max(nf.n, 0)
                /\ cyl_added' = cyl_added + nf.n
                /\ cyl_vol_fiber' =
                      FloatDiv(get_num_pixels(Porosity(cyl_args, cyl_solid'),
                                              Prod(cyl_args.shape)),
                               cyl_added')
                /\ cyl_hist' = Append(cyl_hist, nf.n)
                /\ cyl_k' = cyl_k + 1
                /\ UNCHANGED <<cyl_pc, cyl_ret>>
    /\ UNCHANGED cyl_args

\* fractions is used up: return im (line 1148)
CYL_Return ==
    /\ cyl_pc = "loop"
    /\ cyl_k >= Len(Fractions(cyl_args.max_iter))
    /\ cyl_pc' = "done"
    /\ cyl_ret' = Returned(cyl_solid)
    /\ UNCHANGED <<cyl_args, cyl_k, cyl_added, cyl_vol_fiber, cyl_solid, cyl_hist,
                   cyl_placed>>

\* ---- the calls explored ----

CylShapes == {<<CylSide, CylSide, CylSide>>, <<CylSide * CylSide, CylSide>>}

\* (phi_max, theta_max): the defaults, and each out of range
CylAngles == {<<0, 90>>, <<91, 90>>, <<0, -1>>}

CylCalls ==
    {[shape |-> sh, radius |-> r, ncylinders |-> n, porosity |-> p,
      phi_max |-> ang[1], theta_max |-> ang[2], length |-> len, max_iter |-> m] :
        sh \in CylShapes, r \in {1, 2}, n \in {None, Some(0), Some(2)},
        p \in {None, <<7, 10>>, <<1, 2>>, <<1, 1>>}, ang \in CylAngles,
        len \in {None, Some(1)}, m \in 2..MaxCylIter}

StartCylinders ==
    /\ cyl_pc = "call"
    /\ cyl_args \in CylCalls
    /\ cyl_k = 0
    /\ cyl_added = 0
    /\ cyl_vol_fiber = <<>>
    /\ cyl_solid = 0
    /\ cyl_hist = <<>>
    /\ cyl_placed = 0
    /\ cyl_ret = <<>>

\* ---- cylinders: properties ----

\* A call in porosity mode that gets past the argument checks
PorosityMode(args) ==
    args.ncylinders = None /\ args.porosity # None /\ args.max_iter >= 3

\* The arguments _cylinders accepts
CylValid(args) ==
    /\ Len(args.shape) = 3
    /\ args.phi_max >= 0 /\ args.phi_max <= 90
    /\ args.theta_max >= 0 /\ args.theta_max <= 90

\* C12 (as claimed): in porosity mode no batch computes a negative number of
\* fibers, so n_fibers_added never decreases, and a call with valid
\* arguments returns after exactly max_iter batches, zero-fiber batches
\* included.
C12_FiberCountNonDecreasing ==
    (cyl_pc \in {"loop", "done", "raised"} /\ PorosityMode(cyl_args)) =>
        /\ \A b \in 1..Len(cyl_hist) : cyl_hist[b] >= 0
        /\ CylValid(cyl_args) => cyl_pc # "raised"
        /\ (CylValid(cyl_args) /\ cyl_pc = "done") => Len(cyl_hist) = cyl_args.max_iter

\* C13 (as claimed): a call that returns an image supplied exactly one of
\* ncylinders and porosity; a call supplying neither or both raises.
C13_ExactlyOneMode ==
    cyl_pc \in {"loop", "done", "raised"} =>
        /\ cyl_pc \in {"loop", "done"}
              => (cyl_args.ncylinders = None) # (cyl_args.porosity = None)
        /\ (cyl_args.ncylinders = None) = (cyl_args.porosity = None)
              => cyl_pc = "raised" /\ cyl_placed = 0

\* C14 (as claimed): every call with max_iter < 3 raises with no fiber
\* placed, whichever of ncylinders and porosity it supplies.
C14_SmallMaxIterFails ==
    (cyl_pc \in {"loop", "done", "raised"} /\ cyl_args.max_iter < 3) =>
        cyl_pc = "raised" /\ cyl_placed = 0

\* C14 (amended): every call with max_iter < 3 that supplies no ncylinders
\* raises with no fiber placed; a call that supplies ncylinders is handed to
\* _cylinders whatever max_iter is, and with arguments _cylinders accepts it
\* returns with its ncylinders fibers placed.
C14_PorosityModeSmallMaxIterFails ==
    cyl_pc \in {"loop", "done", "raised"} =>
        /\ (cyl_args.max_iter < 3 /\ cyl_args.ncylinders = None)
              => cyl_pc = "raised" /\ cyl_placed = 0 /\ cyl_hist = <<>>
        /\ (cyl_args.ncylinders # None /\ CylValid(cyl_args))
              => /\ cyl_pc = "done"
                 /\ cyl_placed = (IF cyl_args.ncylinders[1] > 0
                                  THEN cyl_args.ncylinders[1] ELSE 0)

\* C14 witness: a porosity-mode call with max_iter = 2 has raised
C14_Witness ==
    /\ cyl_pc = "raised" /\ cyl_args.ncylinders = None /\ cyl_args.porosity # None
    /\ cyl_args.max_iter = 2 /\ CylValid(cyl_args) /\ cyl_placed = 0

\* ------------------------------------------------------------------------
\* line_segment
\* ------------------------------------------------------------------------

\* np.rint(n / d) for d > 0: the nearest integer, the even one on a tie
Rint(n, d) ==
    LET q == n \div d
        r == n - q * d
    IN  IF 2 * r < d THEN q
        ELSE IF 2 * r > d THEN q + 1
        ELSE IF q % 2 = 0 THEN q ELSE q + 1

\* np.rint(np.linspace(a, b, L))[k] for integers a, b and 0 <= k < L
LinspaceRint(a, b, L, k) ==
    IF L = 1 THEN a ELSE Rint(a * (L - 1) + k * (b - a), L - 1)

\* line_segment(X0, X1) for end points that are already whole numbers (what
\* np.around(...).astype(int) leaves): the sequence of its points
line_segment(X0, X1) ==
    LET d == [k \in 1..Len(X0) |-> Abs(X1[k] - X0[k])]
        L == (IF Len(X0) = 3 THEN Max(d[1], Max(d[2], d[3])) ELSE Max(d[1], d[2])) + 1
    IN  [i \in 1..L |-> [k \in 1..Len(X0) |-> LinspaceRint(X0[k], X1[k], L, i - 1)]]

\* ------------------------------------------------------------------------
\* _cylinders
\* ------------------------------------------------------------------------

\* shape after lines 968-970: a single number stands for a cube
CyShape(shape) == IF Len(shape) = 1 THEN <<shape[1], shape[1], shape[1]>> ELSE shape

\* int(sqrt(n)), by search
ISqrt(n) == CHOOSE h \in 0..n : h * h <= n /\ (h + 1) * (h + 1) > n

\* H = np.sqrt(np.sum(np.square(shape))).astype(int)
CyH(shape) == ISqrt(shape[1] * shape[1] + shape[2] * shape[2] + shape[3] * shape[3])

\* R = min(int(length / 2), 2 * H), with length = 2 * H when none is given
CyR(shape, length) ==
    IF length = None THEN Min((2 * CyH(shape)) \div 2, 2 * CyH(shape))
    ELSE Min(length[1] \div 2, 2 * CyH(shape))

\* L = min(H, R)
CyL(shape, length) == Min(CyH(shape), CyR(shape, length))

\* Mutant: points one voxel below the grid pass the lower test
LowerMaskLoose(pt, L) == \A k \in 1..3 : ~(pt[k] < L - 1)

\* lower: no coordinate of the point is below L
LowerMask(pt, L) == \A k \in 1..3 : ~(pt[k] < L)

\* upper: no coordinate of the point is at or beyond shape + L
UpperMask(pt, shape, L) == \A k \in 1..3 : ~(pt[k] >= shape[k] + L)

\* The points of crds kept by valid = upper * lower
ValidPoints(crds, shape, L) ==
    {crds[i] : i \in {j \in 1..Len(crds) : UpperMask(crds[j], shape, L)
                                            /\ LowerMask(crds[j], L)}}

\* The index tuples of line 1003
RawIndices(pts, L) == {[k \in 1..3 |-> pt[k] - L] : pt \in pts}

\* Whether numpy accepts the index tuple raw for an array of that shape
IndexOk(raw, shape) == \A k \in 1..3 : raw[k] >= 0 - shape[k] /\ raw[k] < shape[k]

\* The voxel an accepted index tuple addresses (negative indices count from
\* the end)
Addressed(raw, shape) ==
    [k \in 1..3 |-> IF raw[k] < 0 THEN raw[k] + shape[k] ELSE raw[k]]

\* The segments one pass of the loop can sample, as pairs of rounded end
\* points x + X0, x - X0: x on the near edge, inside, and on the far edge of
\* the padded domain, X0 a whole vector about R long that keeps to the XY
\* plane when phi_max = 0 and to the X axis when both angles are 0
CyCenters(shape, L) ==
    {<<x, y, z>> : x \in {0, L, shape[1] + L - 1},
                   y \in {L, shape[2] + L - 1, shape[2] + 2 * L - 1},
                   z \in {L, shape[3] + 2 * L - 1}}

CyDirections(R, phi_max, theta_max) ==
    {d \in {<<a, b, c>> : a \in 0..R, b \in (0 - R)..R, c \in (0 - R)..R} :
        /\ d[1] * d[1] + d[2] * d[2] + d[3] * d[3] >= R * R - R
        /\ d[1] * d[1] + d[2] * d[2] + d[3] * d[3] <= R * R + R
        /\ theta_max = 0 => d[2] = 0
        /\ phi_max = 0 => d[3] = 0}

CySegments(args) ==
    LET shape == CyShape(args.shape)
    IN  {line_segment([k \in 1..3 |-> x[k] + d[k]], [k \in 1..3 |-> x[k] - d[k]]) :
            x \in CyCenters(shape, CyL(shape, args.length)),
            d \in CyDirections(CyR(shape, args.length), args.phi_max, args.theta_max)}

\* edt(~im) < radius, negated: the voxels at least radius away from every
\* painted voxel
CyResult(shape, radius, painted) ==
    {p \in Indices3(shape) : \A q \in painted : DistSq3(p, q) >= radius * radius}

\* Lines 968-987: the checks, and everything before the loop
CY_Begin ==
    /\ cy_pc = "call"
    /\ IF CylArgsInvalid(cy_args.shape, cy_args.phi_max, cy_args.theta_max)
       THEN cy_pc' = "raised" /\ cy_ret' = Raised
       ELSE cy_pc' = "loop" /\ UNCHANGED cy_ret
    /\ UNCHANGED <<cy_args, cy_n, cy_im, cy_discarded, cy_counted, cy_raw>>

\* One pass of the while loop (lines 989-1005)
CY_Sample ==
    /\ cy_pc = "loop"
    /\ cy_n < cy_args.ncylinders
    /\ \E crds \in CySegments(cy_args) :
          LET shape == CyShape(cy_args.shape)
              L     == CyL(shape, cy_args.length)
              valid == ValidPoints(crds, shape, L)
              raw   == RawIndices(valid, L)
          IN  IF valid = {}
              THEN /\ cy_discarded' = TRUE
                   /\ UNCHANGED <<cy_pc, cy_n, cy_im, cy_counted, cy_raw, cy_ret>>
              ELSE IF \E r \in raw : ~IndexOk(r, shape)
              THEN \* IndexError at line 1003
                   /\ cy_pc' = "raised" /\ cy_ret' = Raised
                   /\ cy_raw' = cy_raw \cup raw
                   /\ UNCHANGED <<cy_n, cy_im, cy_discarded, cy_counted>>
              ELSE /\ cy_im' = cy_im \cup {Addressed(r, shape) : r \in raw}
                   /\ cy_raw' = cy_raw \cup raw
                   /\ cy_n' = cy_n + 1
                   /\ cy_counted' = Append(cy_counted, Cardinality(valid))
                   /\ UNCHANGED <<cy_pc, cy_discarded, cy_ret>>
    /\ UNCHANGED cy_args

\* The while condition is found false: lines 1006-1008
CY_Return ==
    /\ cy_pc = "loop"
    /\ ~(cy_n < cy_args.ncylinders)
    /\ cy_pc' = "done"
    /\ cy_ret' = Returned(CyResult(CyShape(cy_args.shape), cy_args.radius, cy_im))
    /\ UNCHANGED <<cy_args, cy_n, cy_im, cy_discarded, cy_counted, cy_raw>>

\* ---- the calls explored ----

CyCalls ==
    {[shape |-> sh, radius |-> 1, ncylinders |-> n, phi_max |-> ang[1],
      theta_max |-> ang[2], length |-> len] :
        sh \in {<<CySide>>, <<CySide, CySide, CySide>>, <<CySide, CySide>>},
        n \in {0, 1, 2},
        ang \in {<<0, 90>>, <<90, 0>>, <<0, 0>>, <<91, 90>>, <<-1, 90>>, <<0, 91>>, <<0, -1>>},
        len \in {None, Some(2)}}

StartCy ==
    /\ cy_pc = "call"
    /\ cy_args \in CyCalls
    /\ cy_n = 0
    /\ cy_im = {}
    /\ cy_discarded = FALSE
    /\ cy_counted = <<>>
    /\ cy_raw = {}
    /\ cy_ret = <<>>

\* ---- _cylinders: properties ----

\* C15: a call with phi_max or theta_max outside [0, 90], or with a
\* 2-element shape, raises with no segment sampled or painted; with valid
\* arguments the loop is left with n = ncylinders segments counted, each
\* with at least one point inside the grid, every index painted lies inside
\* the grid, and the call returns.
C15_ChecksThenPlaces ==
    cy_pc \in {"loop", "done", "raised"} =>
        LET bad == \/ Len(cy_args.shape) = 2
                   \/ cy_args.phi_max < 0 \/ cy_args.phi_max > 90
                   \/ cy_args.theta_max < 0 \/ cy_args.theta_max > 90
            side == cy_args.shape[1]
        IN  /\ bad => /\ cy_pc = "raised"
                      /\ cy_n = 0 /\ cy_im = {} /\ cy_raw = {} /\ ~cy_discarded
            /\ ~bad =>
                  /\ cy_pc # "raised"
                  /\ cy_n <= cy_args.ncylinders
                  /\ Len(cy_counted) = cy_n
                  /\ \A i \in 1..Len(cy_counted) : cy_counted[i] >= 1
                  /\ \A r \in cy_raw : \A k \in 1..3 : r[k] >= 0 /\ r[k] < side
                  /\ cy_im = cy_raw
                  /\ cy_pc = "done" => cy_n = cy_args.ncylinders /\ ~cy_ret.raised

\* C15 witness: two segments were counted after another was discarded, and
\* the image was returned
C15_Witness ==
    /\ cy_pc = "done" /\ cy_n = 2 /\ cy_args.ncylinders = 2
    /\ cy_discarded /\ Cardinality(cy_im) > 1 /\ ~cy_ret.raised

\* A second case of C15: a call with a 2-element shape has raised
C15_Rejected ==
    cy_pc = "raised" /\ Len(cy_args.shape) = 2 /\ cy_n = 0 /\ cy_raw = {}

\* ------------------------------------------------------------------------
\* _get_Voronoi_edges
\* ------------------------------------------------------------------------
\* A 2-column array is a sequence of rows <<a, b>>; a complex number is the
\* pair <<real, imag>>.

\* The concatenation of a sequence of lists (list.extend, facet by facet)
RECURSIVE Concat(_)
Concat(lists) ==
    IF lists = <<>> THEN <<>> ELSE Head(lists) \o Concat(Tail(lists))

\* facet[:-1] + [facet[-1]]
RidgeStarts(facet) == SubSeq(facet, 1, Len(facet) - 1) \o <<facet[Len(facet)]>>

\* Mutant: the cycle is not closed back to the first vertex
RidgeEndsOpen(facet) == SubSeq(facet, 2, Len(facet)) \o <<facet[Len(facet)]>>

\* facet[1:] + [facet[0]]
RidgeEnds(facet) == SubSeq(facet, 2, Len(facet)) \o <<facet[1]>>

\* np.vstack(edges).T: row i pairs the i-th entries of the two lists
VStackT(starts, ends) == [i \in 1..Len(starts) |-> <<starts[i], ends[i]>>]

\* edges[~mask] for a boolean mask: the rows whose mask is False, in order
RECURSIVE DropMasked(_, _)
DropMasked(rows, mask) ==
    IF rows = <<>> THEN <<>>
    ELSE (IF mask[1] THEN <<>> ELSE <<rows[1]>>) \o DropMasked(Tail(rows), Tail(mask))

\* np.sort(edges, axis=1)
SortRows(rows) ==
    [i \in 1..Len(rows) |-> <<Min(rows[i][1], rows[i][2]), Max(rows[i][1], rows[i][2])>>]

\* The order numpy sorts complex numbers in: by real part, then by
\* imaginary part
ComplexLess(x, y) == x[1] < y[1] \/ (x[1] = y[1] /\ x[2] < y[2])

\* np.unique of a 1-D complex array: its distinct values, sorted
RECURSIVE SortedSeq(_)
SortedSeq(S) ==
    IF S = {} THEN <<>>
    ELSE LET least == CHOOSE x \in S : \A y \in S \ {x} : ComplexLess(x, y)
         IN  <<least>> \o SortedSeq(S \ {least})

Unique(zs) == SortedSeq({zs[i] : i \in 1..Len(zs)})

\* Lines 462-476
get_Voronoi_edges(ridges) ==
    LET starts   == Concat([i \in 1..Len(ridges) |-> RidgeStarts(ridges[i])])
        ends     == Concat([i \in 1..Len(ridges) |-> RidgeEnds(ridges[i])])
        edges    == VStackT(starts, ends)
        mask     == [i \in 1..Len(edges) |-> edges[i][1] = -1 \/ edges[i][2] = -1]
        finite   == DropMasked(edges, mask)
        sorted   == SortRows(finite)
        packed   == [i \in 1..Len(sorted) |-> <<sorted[i][1], sorted[i][2]>>]
        uniq     == Unique(packed)
    IN  [i \in 1..Len(uniq) |-> <<uniq[i][1], uniq[i][2]>>]

VE_Call ==
    /\ ve_pc = "call"
    /\ ve_pc' = "done"
    /\ ve_ret' = Returned(get_Voronoi_edges(ve_ridges))
    /\ UNCHANGED ve_ridges

\* ---- the calls explored ----

\* A ridge: two vertices (a 2-D diagram) or three (a 3-D one), -1 for the
\* vertex at infinity
VeRidges ==
    {<<a, b>> : a \in -1..MaxVertex, b \in -1..MaxVertex}
    \cup {<<a, b, c>> : a \in -1..MaxVertex, b \in -1..MaxVertex, c \in -1..MaxVertex}

VeRidgeLists ==
    {<<>>} \cup {<<r>> : r \in VeRidges} \cup {<<r, s>> : r \in VeRidges, s \in VeRidges}

StartVe ==
    /\ ve_pc = "call"
    /\ ve_ridges \in VeRidgeLists
    /\ ve_ret = <<>>

\* ---- _get_Voronoi_edges: properties ----

\* The pairs of cyclically consecutive vertices of a ridge
ConsecutivePairs(facet) ==
    {<<facet[i], facet[(i % Len(facet)) + 1]>> : i \in 1..Len(facet)}

\* The finite edges of the ridges, as sets of one or two vertices
FiniteEdges(ridges) ==
    {{p[1], p[2]} : p \in {q \in UNION {ConsecutivePairs(ridges[i]) : i \in 1..Len(ridges)} :
                              q[1] # -1 /\ q[2] # -1}}

\* C16: the rows returned are exactly the finite edges of the ridges: every
\* row has a <= b and no -1, no two rows hold the same pair, every row is a
\* pair of cyclically consecutive vertices of some ridge, and no such pair
\* of finite vertices is missing.
C16_EdgesExact ==
    ve_pc = "done" =>
        LET rows == ve_ret.value
        IN  /\ ~ve_ret.raised
            /\ \A i \in 1..Len(rows) :
                  rows[i][1] <= rows[i][2] /\ rows[i][1] # -1 /\ rows[i][2] # -1
            /\ \A i \in 1..Len(rows) : \A j \in 1..Len(rows) :
                  {rows[i][1], rows[i][2]} = {rows[j][1], rows[j][2]} => i = j
            /\ {{rows[i][1], rows[i][2]} : i \in 1..Len(rows)} = FiniteEdges(ve_ridges)

\* C16 witness: two ridges share an edge, one of them reaches infinity, and
\* the shared edge is returned once
C16_Witness ==
    /\ ve_pc = "done"
    /\ ve_ridges = << <<0, 1, 2>>, <<1, 0, -1>> >>
    /\ ve_ret.value = << <<0, 1>>, <<0, 2>>, <<1, 2>> >>

\* ------------------------------------------------------------------------
\* perlin_noise: the argument checks
\* ------------------------------------------------------------------------
\* shape and frequency are sequences; a scalar is a sequence of length 1.

\* shape after lines 734-736: a single number stands for a cube
PnShape(shape) == IF Len(shape) = 1 THEN <<shape[1], shape[1], shape[1]>> ELSE shape

\* res after lines 737-739: a single frequency is used on every axis
PnRes(frequency, shape) ==
    IF Len(frequency) = 1 THEN [k \in 1..Len(shape) |-> frequency[1]] ELSE frequency

RECURSIVE Pow(_, _)
Pow(b, e) == IF e = 0 THEN 1 ELSE b * Pow(b, e - 1)

\* np.mod(shape, res) > 0 on one axis
NotMultiple(s, r) == s % r > 0

\* Mutant: a shape equal to res ** octaves is turned down too
PowerTooLargeStrict(s, r, octaves) == s <= Pow(r, octaves)

\* shape / res**octaves < 1 on one axis
PowerTooLarge(s, r, octaves) == s < Pow(r, octaves)

\* (shape / res**octaves) % 1 is not zero on one axis
NotFactor(s, r, octaves) == s % Pow(r, octaves) # 0

\* The check of lines 742-750 that raises, "" when all pass
FailedCheck(args) ==
    LET shape == PnShape(args.shape)
        res   == PnRes(args.frequency, shape)
        axes  == 1..Len(shape)
    IN  IF Len(res) # Len(shape) THEN "shape and res must have same dimensions"
        ELSE IF \E k \in axes : NotMultiple(shape[k], res[k])
        THEN "res must be a multiple of shape along each axis"
        ELSE IF \E k \in axes : PowerTooLarge(shape[k], res[k], args.octaves)
        THEN "(res[i])**octaves must be <= shape[i]"
        ELSE IF \E k \in axes : NotFactor(shape[k], res[k], args.octaves)
        THEN "Image size must be factor of res**octaves"
        ELSE ""

\* Lines 733-753: the arguments are parsed and checked; noise = np.zeros
\* is reached only when every check passes
PN_Check ==
    /\ pn_pc = "call"
    /\ pn_failed' = FailedCheck(pn_args)
    /\ pn_pc' = IF pn_failed' = "" THEN "noise" ELSE "raised"
    /\ pn_round' = 0
    /\ pn_frequency' = 1
    /\ UNCHANGED pn_args

\* ---- perlin_noise: the octaves (_perlin_noise_2D, _perlin_noise_3D) ----

\* The length of an axis of np.mgrid[0:res:delta] with delta = res / shape,
\* the division taken as exact: the points 0, delta, ..., below res
GridLen(s, r) == Cardinality({i \in 0..s : i * r < r * s})

\* The length of an axis of gradients[0:-1].repeat(d) (and of the three or
\* seven other corner arrays), gradients having res + 1 entries and d being
\* shape // res
RepeatedLen(s, r) == r * (s \div r)

\* grid * g00 and noise += ... need the two lengths to agree on every axis
OctaveFits(shape, res) ==
    \A k \in 1..Len(shape) : GridLen(shape[k], res[k]) = RepeatedLen(shape[k], res[k])

\* One pass of the loop of lines 756-762: the octave of resolution
\* frequency * res is added to noise, or numpy raises ValueError because the
\* arrays do not have the same shape
PN_Octave ==
    /\ pn_pc = "noise"
    /\ pn_round < pn_args.octaves
    /\ LET shape == PnShape(pn_args.shape)
           res   == PnRes(pn_args.frequency, shape)
       IN  IF OctaveFits(shape, [k \in 1..Len(shape) |-> pn_frequency * res[k]])
           THEN /\ pn_round' = pn_round + 1
                /\ pn_frequency' = pn_frequency * 2
                /\ UNCHANGED pn_pc
           ELSE /\ pn_pc' = "mismatch"
                /\ UNCHANGED <<pn_round, pn_frequency>>
    /\ UNCHANGED <<pn_args, pn_failed>>

\* Lines 764-768: every octave was added and the noise is returned
PN_Return ==
    /\ pn_pc = "noise"
    /\ pn_round >= pn_args.octaves
    /\ pn_pc' = "done"
    /\ UNCHANGED <<pn_args, pn_failed, pn_round, pn_frequency>>

\* ---- the calls explored ----

\* Shapes: a single number, every 2-D shape up to the bound, the two 2-D
\* shapes of the documentation's examples, and a power of 3
PnShapes ==
    {<<a>> : a \in 1..MaxPerlinSide}
    \cup {<<a, b>> : a \in 1..MaxPerlinSide, b \in 1..MaxPerlinSide}
    \cup {<<64, 64>>, <<10, 10>>, <<9, 9>>}

PnFrequencies ==
    {<<fr>> : fr \in 1..MaxFrequency}
    \cup {<<fr, gr>> : fr \in 1..MaxFrequency, gr \in 1..MaxFrequency}

PnCalls ==
    {[shape |-> s, frequency |-> fr, octaves |-> o] :
        s \in PnShapes, fr \in PnFrequencies, o \in 0..MaxOctaves}

StartPn ==
    /\ pn_pc = "call"
    /\ pn_args \in PnCalls
    /\ pn_failed = ""
    /\ pn_round = 0
    /\ pn_frequency = 0

\* ---- perlin_noise: properties ----

\* The number of axes of the image, and the frequency used on axis k
PnAxes(args) == IF Len(args.shape) = 1 THEN 3 ELSE Len(args.shape)

PnShapeOn(args, k) == IF Len(args.shape) = 1 THEN args.shape[1] ELSE args.shape[k]

PnFreqOn(args, k) == IF Len(args.frequency) = 1 THEN args.frequency[1] ELSE args.frequency[k]

\* frequency ** octaves on axis k, by repeated multiplication
PnFreqPower(args, k) ==
    LET F[e \in 0..args.octaves] == IF e = 0 THEN 1 ELSE PnFreqOn(args, k) * F[e - 1]
    IN  F[args.octaves]

\* The calls the documentation turns down
ShouldReject(args) ==
    \/ Len(args.frequency) # 1 /\ Len(args.frequency) # PnAxes(args)
    \/ /\ Len(args.frequency) = 1 \/ Len(args.frequency) = PnAxes(args)
       /\ \E k \in 1..PnAxes(args) :
             \/ \A m \in 1..PnShapeOn(args, k) : m * PnFreqOn(args, k) # PnShapeOn(args, k)
             \/ PnFreqPower(args, k) > PnShapeOn(args, k)
             \/ \A m \in 1..PnShapeOn(args, k) : m * PnFreqPower(args, k) # PnShapeOn(args, k)

\* C17: a call is rejected, before any noise is generated, exactly when on
\* some axis the shape is no multiple of frequency, or frequency ** octaves
\* exceeds the shape, or shape / frequency ** octaves is no integer, or
\* shape and frequency differ in dimensionality; shape=[64,64], frequency=2,
\* octaves=3 is accepted and shape=[10,10], frequency=4, octaves=1 rejected.
C17_RejectedIff ==
    pn_pc \in {"noise", "mismatch", "done", "raised"} =>
        /\ (pn_pc = "raised") = ShouldReject(pn_args)
        /\ pn_args = [shape |-> <<64, 64>>, frequency |-> <<2>>, octaves |-> 3]
              => pn_pc # "raised"
        /\ pn_args = [shape |-> <<10, 10>>, frequency |-> <<4>>, octaves |-> 1]
              => pn_pc = "raised"

\* C17 witness: a shape equal to frequency ** octaves on one axis, and a
\* multiple of it on the other, is accepted
C17_Witness ==
    /\ pn_pc = "noise"
    /\ pn_args = [shape |-> <<8, 4>>, frequency |-> <<2, 1>>, octaves |-> 3]

\* A second case of C17: the example the documentation rejects
C17_Rejected ==
    /\ pn_pc = "raised"
    /\ pn_args = [shape |-> <<10, 10>>, frequency |-> <<4>>, octaves |-> 1]

\* C23 (as claimed): a call that passed the checks completes every octave:
\* in each round k below octaves the shape is an exact multiple of
\* frequency * 2^k on every axis, and no round fails on mismatched shapes.
C23_EveryOctaveFits ==
    pn_pc \in {"noise", "mismatch", "done"} =>
        /\ pn_pc # "mismatch"
        /\ \A k \in 0..(pn_args.octaves - 1) : \A a \in 1..PnAxes(pn_args) :
              PnShapeOn(pn_args, a) % (PnFreqOn(pn_args, a) * Pow(2, k)) = 0

\* ------------------------------------------------------------------------
\* pseudo_gravity_packing (2-D images)
\* ------------------------------------------------------------------------
\* A boolean image is the set of its True voxels <<x, y>>, its shape being
\* that of the image passed in.

\* skimage.morphology.disk(r): the offsets within distance r of the middle
disk(r) ==
    {o \in ((0 - r)..r) \X ((0 - r)..r) : o[1] * o[1] + o[2] * o[2] <= r * r}

\* ps.tools.fftmorphology(im, strel, mode='erosion'): the voxels where the
\* whole structuring element lies on True voxels of the image
fftmorphology_erosion(on, strel) ==
    {p \in on : \A o \in strel : <<p[1] + o[1], p[2] + o[2]>> \in on}

\* The voxels of row -(r + 1) of the image
InletRow(shape, r) == {<<shape[1] - (r + 1), y>> : y \in 0..(shape[2] - 1)}

\* Face neighbours
Adjacent(p, q) == Abs(p[1] - q[1]) + Abs(p[2] - q[2]) = 1

\* The voxels of `allowed` connected to `seen` through face neighbours
RECURSIVE Flood(_, _)
Flood(seen, allowed) ==
    LET more == {p \in allowed \ seen : \E q \in seen : Adjacent(p, q)}
    IN  IF more = {} THEN seen ELSE Flood(seen \cup more, allowed)

\* ps.filters.trim_disconnected_blobs(im, inlets): the voxels of im in a
\* blob of im + inlets that touches the inlets
trim_disconnected_blobs(on, inlets) == Flood(inlets, on \cup inlets) \cap on

\* ps.tools.insert_sphere(im, c, r, v=0): the voxels closer than r to c are
\* set to False
insert_sphere(on, c, r) == {p \in on : DistSq(p, c) >= r * r \/ r <= 0}

\* np.where(sites[x_min:x_min + 2 * r, ...]): the True voxels of the window
\* in row-major order, as <<x, y>> with x counted from x_min
RECURSIVE RowMajor(_)
RowMajor(S) ==
    IF S = {} THEN <<>>
    ELSE LET first == CHOOSE p \in S : \A q \in S \ {p} : ComplexLess(p, q)
         IN  <<first>> \o RowMajor(S \ {first})

WindowSites(sites, x_min, r) ==
    RowMajor({<<p[1] - x_min, p[2]>> : p \in {q \in sites : q[1] >= x_min
                                                            /\ q[1] < x_min + 2 * r}})

\* Mutant: the sites with the largest x of the window
OptionsHighest(win) ==
    LET xmax == CHOOSE v \in {win[i][1] : i \in 1..Len(win)} :
                    \A i \in 1..Len(win) : v >= win[i][1]
    IN  {i - 1 : i \in {j \in 1..Len(win) : win[j][1] = xmax}}

\* options = np.where(x == x.min())[0]: the positions in the window list of
\* the sites with the smallest x
Options(win) ==
    LET xmin == CHOOSE v \in {win[i][1] : i \in 1..Len(win)} :
                    \A i \in 1..Len(win) : v <= win[i][1]
    IN  {i - 1 : i \in {j \in 1..Len(win) : win[j][1] = xmin}}

\* np.random.randint(low, high): the integers it can return, low included
\* and high excluded
Randint(low, high) == low..(high - 1)

\* The values `choice` can take for a list of n options (lines 1234-1237)
Choices(n) == IF n > 1 THEN Randint(0, n - 1) ELSE {0}

\* scipy.ndimage.minimum_filter(im, footprint=disk(1)): a voxel stays True
\* when it and its face neighbours are True, the image being mirrored at
\* its edges
minimum_filter(on, shape) ==
    {p \in on : \A o \in disk(1) :
        LET q == <<p[1] + o[1], p[2] + o[2]>>
        IN  (q[1] \in 0..(shape[1] - 1) /\ q[2] \in 0..(shape[2] - 1)) => q \in on}

\* Lines 1212-1223: sites, inlets and x_min; np.where(sites)[0].min() raises
\* ValueError when sites has no True voxel
PG_Begin ==
    /\ pg_pc = "call"
    /\ pg_r' = pg_args.r - 1
    /\ pg_im' = pg_args.im.on
    /\ pg_sites' = trim_disconnected_blobs(
                      fftmorphology_erosion(pg_args.im.on, disk(pg_r')),
                      InletRow(pg_args.im.shape, pg_r'))
    /\ IF pg_sites' = {}
       THEN pg_pc' = "raised" /\ pg_ret' = Raised /\ UNCHANGED pg_x_min
       ELSE /\ pg_pc' = "loop"
            /\ pg_x_min' = CHOOSE v \in {p[1] : p \in pg_sites'} :
                              \A p \in pg_sites' : v <= p[1]
            /\ UNCHANGED pg_ret
    /\ UNCHANGED <<pg_args, pg_iter, pg_pick, pg_placed, pg_printed>>

\* One pass of the for loop (lines 1226-1247)
PG_Iterate ==
    /\ pg_pc = "loop"
    /\ pg_iter < pg_args.max_iter
    /\ pg_iter' = pg_iter + 1
    /\ LET win == WindowSites(pg_sites, pg_x_min, pg_r)
       IN  IF Len(win) = 0
           THEN /\ pg_pc' = "exit"
                /\ UNCHANGED <<pg_im, pg_sites, pg_x_min, pg_pick, pg_placed>>
           ELSE LET options == Options(win)
                    order   == RowMajor({win[o + 1] : o \in options})
                IN  \E choice \in Choices(Cardinality(options)) :
                       LET cen == <<order[choice + 1][1] + pg_x_min, order[choice + 1][2]>>
                       IN  /\ pg_im' = insert_sphere(pg_im, cen, pg_r - pg_args.clearance)
                           /\ pg_sites' = insert_sphere(pg_sites, cen, 2 * pg_r)
                           /\ pg_x_min' = pg_x_min + order[1][1]
                           /\ pg_pick' =
                                 [candidates |-> {<<win[o + 1][1] + pg_x_min, win[o + 1][2]>> :
                                                     o \in options},
                                  can |-> {<<order[c + 1][1] + pg_x_min, order[c + 1][2]>> :
                                              c \in Choices(Cardinality(options))},
                                  sites |-> pg_sites]
                           /\ pg_placed' = Append(pg_placed, cen)
                           /\ UNCHANGED pg_pc
    /\ UNCHANGED <<pg_args, pg_r, pg_printed, pg_ret>>

\* range(max_iter) is used up
PG_LoopEnd ==
    /\ pg_pc = "loop"
    /\ pg_iter >= pg_args.max_iter
    /\ pg_pc' = "exit"
    /\ UNCHANGED <<pg_args, pg_r, pg_im, pg_sites, pg_x_min, pg_iter, pg_pick,
                   pg_placed, pg_printed, pg_ret>>

\* The value of the loop variable _ after the loop: the index of the last
\* pass begun, and unbound when range(max_iter) was empty
LoopVariable(passes) == IF passes = 0 THEN None ELSE Some(passes - 1)

\* Lines 1248-1250: the print reads the loop variable (UnboundLocalError when
\* no pass was begun), then the image is filtered and returned
PG_Return ==
    /\ pg_pc = "exit"
    /\ IF LoopVariable(pg_iter) = None
       THEN pg_pc' = "unbound" /\ pg_ret' = Raised /\ UNCHANGED pg_printed
       ELSE /\ pg_pc' = "done"
            /\ pg_printed' = LoopVariable(pg_iter)
            /\ pg_ret' = Returned(minimum_filter(pg_im, pg_args.im.shape))
    /\ UNCHANGED <<pg_args, pg_r, pg_im, pg_sites, pg_x_min, pg_iter, pg_pick,
                   pg_placed>>

\* ---- the calls explored ----

\* Images: all pore, all solid, and all pore but one solid voxel
PgImages ==
    LET all == {<<x, y>> : x \in 0..(PgNx - 1), y \in 0..(PgNy - 1)}
    IN  {[shape |-> <<PgNx, PgNy>>, on |-> on] :
            on \in {all, {}} \cup {all \ {v} : v \in all}}

PgCalls ==
    {[im |-> im, r |-> r, clearance |-> 0, max_iter |-> m] :
        im \in PgImages, r \in {1, 2}, m \in 0..PgMaxIter}

StartPg ==
    /\ pg_pc = "call"
    /\ pg_args \in PgCalls
    /\ pg_r = 0
    /\ pg_im = {}
    /\ pg_sites = {}
    /\ pg_x_min = 0
    /\ pg_iter = 0
    /\ pg_pick = <<>>
    /\ pg_placed = <<>>
    /\ pg_printed = <<>>
    /\ pg_ret = <<>>

\* ---- pseudo_gravity_packing: properties ----

\* C18 (as claimed): in every pass that picks a center, each site at the
\* smallest first-axis coordinate of the window, the last one in row-major
\* order included, is among the centers the random draw can return.
C18_EveryCandidateCanBeChosen ==
    (pg_pc \in {"loop", "exit", "done"} /\ pg_pick # <<>>) =>
        pg_pick.can = pg_pick.candidates

\* The eroded, inlet-connected site mask the call starts from
PgInitialSites(args) ==
    trim_disconnected_blobs(fftmorphology_erosion(args.im.on, disk(args.r - 1)),
                            InletRow(args.im.shape, args.r - 1))

\* C19 (as claimed): running out of sites is no error: no call raises, and
\* a call whose site mask is empty from the start returns with no sphere
\* inserted.
C19_ExhaustionIsNormal ==
    /\ pg_pc # "raised"
    /\ (pg_pc \notin {"idle", "call"} /\ PgInitialSites(pg_args) = {})
          => pg_pc \in {"loop", "exit", "done"} /\ pg_placed = <<>>

\* The smallest first-axis coordinate of a set of voxels
Lowest(S) == CHOOSE v \in {p[1] : p \in S} : \A p \in S : v <= p[1]

PgRunning == pg_pc \in {"loop", "exit", "done", "unbound"}

\* C21: x_min never decreases, no site lies below x_min, and the center of
\* each sphere is a site with the smallest first-axis coordinate of the whole
\* site mask as it was when the sphere was inserted.
C21_LowestSite ==
    /\ [](PgRunning => \A p \in pg_sites : p[1] >= pg_x_min)
    /\ []((PgRunning /\ pg_pick # <<>>) =>
            /\ pg_placed[Len(pg_placed)] \in pg_pick.sites
            /\ pg_placed[Len(pg_placed)][1] = Lowest(pg_pick.sites))
    /\ [][(PgRunning /\ PgRunning') => pg_x_min' >= pg_x_min]_vars

\* A second sphere has been dropped, one row above the first
C21_Witness ==
    /\ Len(pg_placed) = 2
    /\ pg_placed[2][1] > pg_placed[1][1]

\* C22 (as claimed): the count printed after the loop is the number of
\* spheres inserted, however the loop ended (max_iter = 0 included), and no
\* more than max_iter spheres are inserted.
C22_PrintedCountIsInserted ==
    /\ pg_pc \in {"loop", "exit", "done", "unbound"} => Len(pg_placed) <= pg_args.max_iter
    /\ pg_pc # "unbound"
    /\ pg_pc = "done" => pg_printed = Some(Len(pg_placed))

\* ------------------------------------------------------------------------
\* lattice_spheres
\* ------------------------------------------------------------------------
\* A voxel of an image of n axes is a tuple of n indices counted from 0; a
\* boolean image is the set of its True voxels.

\* str.lower() on the lattice names passed
Lower(s) ==
    CASE s = "SC" -> "sc"
      [] s = "FCC" -> "fcc"
      [] s = "Triangular" -> "triangular"
      [] OTHER -> s

\* The lattice name after parsing, "" when the name is not accepted
ParseLattice(ndim, lattice) ==
    IF ndim = 2
    THEN IF lattice \in {"sc", "square", "cubic", "simple cubic"} THEN "sq"
         ELSE IF lattice \in {"tri", "triangular"} THEN "tri"
         ELSE ""
    ELSE IF lattice \in {"sc", "cubic", "simple cubic"} THEN "sc"
         ELSE IF lattice \in {"bcc", "body centered cubic"} THEN "bcc"
         ELSE IF lattice \in {"fcc", "face centered cubic"} THEN "fcc"
         ELSE ""

\* spacing and offset after their defaults, one entry per axis
Spacing(args) ==
    [k \in 1..Len(args.shape) |->
        IF args.spacing = None THEN 2 * args.radius ELSE args.spacing[1]]

Offset(args) ==
    [k \in 1..Len(args.shape) |->
        IF args.offset = None THEN args.radius ELSE args.offset[1]]

LsVoxels(shape) ==
    {v \in [1..Len(shape) -> 0..(LsSide - 1)] :
        \A k \in 1..Len(shape) : v[k] < shape[k]}

\* The indices start::step selects on an axis of n voxels (start >= 0, step > 0)
StridedSlice(start, step, n) ==
    {i \in 0..(n - 1) : i >= start /\ (i - start) % step = 0}

\* im[start[0]::step[0], start[1]::step[1], ...]
Grid(shape, start, step) ==
    {v \in LsVoxels(shape) :
        \A k \in 1..Len(shape) : v[k] \in StridedSlice(start[k], step[k], shape[k])}

\* offset + int(spacing/2) on the axes given, offset on the others
Shifted(off, sp, axes) ==
    [k \in DOMAIN off |-> IF k \in axes THEN off[k] + (sp[k] \div 2) ELSE off[k]]

\* The voxels set True for each lattice
LatticeSeeds(lattice, shape, off, sp) ==
    CASE lattice = "sq" -> Grid(shape, off, sp)
      [] lattice = "tri" ->
            Grid(shape, off, sp) \cup Grid(shape, Shifted(off, sp, {1, 2}), sp)
      [] lattice = "sc" -> Grid(shape, off, sp)
      [] lattice = "bcc" ->
            Grid(shape, off, sp) \cup Grid(shape, Shifted(off, sp, {1, 2, 3}), sp)
      [] lattice = "fcc" ->
            Grid(shape, off, sp)
               \cup Grid(shape, Shifted(off, sp, {1, 2}), sp)
               \cup Grid(shape, Shifted(off, sp, {1, 3}), sp)
               \cup Grid(shape, Shifted(off, sp, {2, 3}), sp)

LsDistSq(p, q) ==
    LET d[k \in 0..Len(p)] ==
            IF k = 0 THEN 0 ELSE d[k - 1] + (p[k] - q[k]) * (p[k] - q[k])
    IN  d[Len(p)]

\* ~(edt(~im) < r) when smooth, ~(edt(~im) <= r) otherwise: the voxels at
\* distance at least r (more than r) from every True voxel of im.  Every call
\* drawn below sets at least one voxel True.
Spheres(shape, on, r, smooth) ==
    {v \in LsVoxels(shape) :
        \A s \in on : IF smooth THEN LsDistSq(v, s) >= r * r
                                ELSE LsDistSq(v, s) > r * r}

\* lines 526-547: the name is lowered and parsed, or the call raises
LS_Parse ==
    /\ ls_pc = "call"
    /\ ls_lattice' = ParseLattice(Len(ls_args.shape), Lower(ls_args.lattice))
    /\ IF ls_lattice' = ""
       THEN ls_pc' = "raised" /\ ls_ret' = Raised
       ELSE ls_pc' = "parsed" /\ UNCHANGED ls_ret
    /\ UNCHANGED <<ls_args, ls_im>>

\* lines 549-593: the sphere centers are set True
LS_Seed ==
    /\ ls_pc = "parsed"
    /\ ls_im' = LatticeSeeds(ls_lattice, ls_args.shape, Offset(ls_args), Spacing(ls_args))
    /\ ls_pc' = "seeded"
    /\ UNCHANGED <<ls_args, ls_lattice, ls_ret>>

\* lines 597-601: the spheres are grown around the centers
LS_Return ==
    /\ ls_pc = "seeded"
    /\ ls_ret' = [raised |-> FALSE,
                  value |-> [shape |-> ls_args.shape,
                             on |-> Spheres(ls_args.shape, ls_im, ls_args.radius,
                                            ls_args.smooth)]]
    /\ ls_pc' = "done"
    /\ UNCHANGED <<ls_args, ls_lattice, ls_im>>

LsShapes ==
    {<<a, b>> : a \in 3..LsSide, b \in 3..LsSide}
       \cup {<<a, a, b>> : a \in 3..LsSide, b \in 3..LsSide}

LsLattices ==
    {"sc", "SC", "square", "cubic", "simple cubic", "tri", "Triangular",
     "bcc", "body centered cubic", "fcc", "FCC", "face centered cubic", "hcp"}

LsCalls ==
    [shape : LsShapes, radius : {1, 2}, spacing : {None, Some(2), Some(3)},
     offset : {None, Some(0), Some(1)}, smooth : BOOLEAN, lattice : LsLattices]

StartLs ==
    /\ ls_pc = "call"
    /\ ls_args \in LsCalls
    /\ ls_lattice = ""
    /\ ls_im = {}
    /\ ls_ret = <<>>

\* ---- lattice_spheres: properties ----

\* The lattice names the description of the lattice argument lists, and the
\* longer names the parser also takes
LsDocumented == {"sc", "fcc", "bcc"}

LsAliases ==
    {"square", "cubic", "simple cubic", "tri", "triangular",
     "body centered cubic", "face centered cubic"}

Ls2D == ls_pc # "idle" /\ Len(ls_args.shape) = 2

LsSeeded == ls_pc \in {"seeded", "done"}

LsBase == Grid(ls_args.shape, Offset(ls_args), Spacing(ls_args))

LsHalfShifted ==
    Grid(ls_args.shape, Shifted(Offset(ls_args), Spacing(ls_args), {1, 2}),
         Spacing(ls_args))

\* C20 (as claimed): on a 2-D shape, 'sc' seeds the square lattice (the base
\* grid), 'fcc' and 'bcc' are accepted and seed the triangular lattice (the
\* base grid and the grid shifted by half a spacing), and a call is rejected
\* only when its lattice name is none of the recognised ones.
C20_TwoDimLattices ==
    Ls2D =>
       /\ Lower(ls_args.lattice) \in LsDocumented => ls_pc # "raised"
       /\ (LsSeeded /\ Lower(ls_args.lattice) = "sc") => ls_im = LsBase
       /\ (LsSeeded /\ Lower(ls_args.lattice) \in {"fcc", "bcc"})
             => ls_im = LsBase \cup LsHalfShifted
       /\ ls_pc = "raised"
             => Lower(ls_args.lattice) \notin LsDocumented \cup LsAliases

\* ------------------------------------------------------------------------
\* line_segment, entry by entry
\* ------------------------------------------------------------------------
\* np.linspace works in floating point: an entry that is exactly halfway
\* between two integers may be computed a little below or above the half,
\* so np.rint can give either neighbour.  Rint(n, d) is always one of them.

\* The values np.rint can return for a float computed as n / d, d > 0
RintOutcomes(n, d) ==
    LET q == n \div d
        r == n - q * d
    IN  IF 2 * r = d THEN {q, q + 1} ELSE {Rint(n, d)}

\* Mutant: the entries of np.linspace(a, b, L, endpoint=False)
LinspaceOutcomesOpen(a, b, L, k) == RintOutcomes(a * L + k * (b - a), L)

\* The values of np.rint(np.linspace(a, b, L))[k]; the first entry is a and
\* the last is set to b
LinspaceOutcomes(a, b, L, k) ==
    IF k = 0 THEN {a}
    ELSE IF k = L - 1 THEN {b}
    ELSE RintOutcomes(a * (L - 1) + k * (b - a), L - 1)

\* L of lines 1172 and 1178
SegmentLength(X0, X1) ==
    LET d == [k \in 1..Len(X0) |-> Abs(X1[k] - X0[k])]
    IN  (IF Len(X0) = 3 THEN Max(d[1], Max(d[2], d[3])) ELSE Max(d[1], d[2])) + 1

\* Lines 1169-1172 / 1178: the end points are whole numbers already, so
\* np.around(...).astype(int) leaves them as they are; L is computed
LSG_Begin ==
    /\ lsg_pc = "call"
    /\ lsg_L' = SegmentLength(lsg_args.X0, lsg_args.X1)
    /\ lsg_pc' = "fill"
    /\ UNCHANGED <<lsg_args, lsg_pts>>

\* Entry Len(lsg_pts) of the arrays x, y (and z)
LSG_Point ==
    /\ lsg_pc = "fill"
    /\ Len(lsg_pts) < lsg_L
    /\ \E p \in [1..Len(lsg_args.X0) -> (0 - 1)..MaxCoord] :
          /\ \A k \in 1..Len(lsg_args.X0) :
                p[k] \in LinspaceOutcomes(lsg_args.X0[k], lsg_args.X1[k], lsg_L,
                                          Len(lsg_pts))
          /\ lsg_pts' = Append(lsg_pts, p)
    /\ UNCHANGED <<lsg_pc, lsg_args, lsg_L>>

\* The arrays are returned
LSG_Return ==
    /\ lsg_pc = "fill"
    /\ Len(lsg_pts) >= lsg_L
    /\ lsg_pc' = "done"
    /\ UNCHANGED <<lsg_args, lsg_L, lsg_pts>>

\* The points of n axes with whole coordinates from -1 to MaxCoord
LsgPoints(n) == [1..n -> (0 - 1)..MaxCoord]

LsgCalls ==
    {[X0 |-> X0, X1 |-> X1] : X0 \in LsgPoints(2), X1 \in LsgPoints(2)}
    \cup {[X0 |-> X0, X1 |-> X1] : X0 \in LsgPoints(3), X1 \in LsgPoints(3)}

StartLsg ==
    /\ lsg_pc = "call"
    /\ lsg_args \in LsgCalls
    /\ lsg_L = 0
    /\ lsg_pts = <<>>

\* ---- line_segment: properties ----

LsgAxes == 1..Len(lsg_args.X0)

\* C25: the result has max_i |X1[i] - X0[i]| + 1 points, starts at X0 and
\* ends at X1, moves by at most 1 along every axis from one point to the
\* next, and stays inside the bounding box of X0 and X1.
C25_SegmentConnected ==
    lsg_pc = "done" =>
        /\ \E i \in LsgAxes :
              /\ Len(lsg_pts) = Abs(lsg_args.X1[i] - lsg_args.X0[i]) + 1
              /\ \A j \in LsgAxes :
                    Abs(lsg_args.X1[j] - lsg_args.X0[j])
                       <= Abs(lsg_args.X1[i] - lsg_args.X0[i])
        /\ lsg_pts[1] = lsg_args.X0
        /\ lsg_pts[Len(lsg_pts)] = lsg_args.X1
        /\ \A n \in 1..(Len(lsg_pts) - 1) : \A k \in LsgAxes :
              Abs(lsg_pts[n + 1][k] - lsg_pts[n][k]) <= 1
        /\ \A n \in 1..Len(lsg_pts) : \A k \in LsgAxes :
              \/ lsg_args.X0[k] <= lsg_pts[n][k] /\ lsg_pts[n][k] <= lsg_args.X1[k]
              \/ lsg_args.X1[k] <= lsg_pts[n][k] /\ lsg_pts[n][k] <= lsg_args.X0[k]

\* C25 witness: a 3-D segment with a halfway entry on its second axis
C25_Witness ==
    /\ lsg_pc = "done"
    /\ lsg_args = [X0 |-> <<2, 0, -1>>, X1 |-> <<0, 1, -1>>]
    /\ lsg_pts = << <<2, 0, -1>>, <<1, 1, -1>>, <<0, 1, -1>> >>

\* ------------------------------------------------------------------------
\* Specifications
\* ------------------------------------------------------------------------

NextInsert == InsertShapeCall /\ UNCHANGED not_ins_vars

InitInsert == StartInsert /\ OnlyIns

SpecInsert == InitInsert /\ [][NextInsert]_vars

NextRSA ==
    \/ RSA_Begin /\ UNCHANGED not_rsa_vars
    \/ RSA_Iterate /\ UNCHANGED not_rsa_vars
    \/ RSA_LoopEnd /\ UNCHANGED not_rsa_vars
    \/ RSA_Return /\ UNCHANGED not_rsa_vars

InitRSA == StartRSA /\ OnlyRsa

SpecRSA == InitRSA /\ [][NextRSA]_vars

\* The call runs to its end: the interpreter keeps executing the next
\* statement, and _make_choice stops after max_iters draws at the latest
FairSpecRSA == SpecRSA /\ WF_vars(NextRSA)

NextOS ==
    \/ OS_Begin /\ UNCHANGED not_os_vars
    \/ OS_Round /\ UNCHANGED not_os_vars
    \/ OS_Exhausted /\ UNCHANGED not_os_vars

InitOS == StartOS /\ OnlyOs

SpecOS == InitOS /\ [][NextOS]_vars

NextCylinders ==
    \/ CYL_Begin /\ UNCHANGED not_cyl_vars
    \/ CYL_Batch /\ UNCHANGED not_cyl_vars
    \/ CYL_Return /\ UNCHANGED not_cyl_vars

InitCylinders == StartCylinders /\ OnlyCyl

SpecCylinders == InitCylinders /\ [][NextCylinders]_vars

NextCy ==
    \/ CY_Begin /\ UNCHANGED not_cy_vars
    \/ CY_Sample /\ UNCHANGED not_cy_vars
    \/ CY_Return /\ UNCHANGED not_cy_vars

InitCy == StartCy /\ OnlyCy

SpecCy == InitCy /\ [][NextCy]_vars

NextVe == VE_Call /\ UNCHANGED not_ve_vars

InitVe == StartVe /\ OnlyVe

SpecVe == InitVe /\ [][NextVe]_vars

NextPn ==
    \/ PN_Check /\ UNCHANGED not_pn_vars
    \/ PN_Octave /\ UNCHANGED not_pn_vars
    \/ PN_Return /\ UNCHANGED not_pn_vars

InitPn == StartPn /\ OnlyPn

SpecPn == InitPn /\ [][NextPn]_vars

NextPg ==
    \/ PG_Begin /\ UNCHANGED not_pg_vars
    \/ PG_Iterate /\ UNCHANGED not_pg_vars
    \/ PG_LoopEnd /\ UNCHANGED not_pg_vars
    \/ PG_Return /\ UNCHANGED not_pg_vars

InitPg == StartPg /\ OnlyPg

SpecPg == InitPg /\ [][NextPg]_vars

NextLs ==
    \/ LS_Parse /\ UNCHANGED not_ls_vars
    \/ LS_Seed /\ UNCHANGED not_ls_vars
    \/ LS_Return /\ UNCHANGED not_ls_vars

InitLs == StartLs /\ OnlyLs

SpecLs == InitLs /\ [][NextLs]_vars

NextLsg ==
    \/ LSG_Begin /\ UNCHANGED not_lsg_vars
    \/ LSG_Point /\ UNCHANGED not_lsg_vars
    \/ LSG_Return /\ UNCHANGED not_lsg_vars

InitLsg == StartLsg /\ OnlyLsg

SpecLsg == InitLsg /\ [][NextLsg]_vars

====
